---- MODULE Spec2Model ----
(***************************************************************************)
(* Model of fastuidraw's FilledPath (src/fastuidraw/painter/               *)
(* filled_path.cpp): the subset tree (SubsetPrivate), its lazy baking      *)
(* (make_ready), the selection walk (select_subsets), and the DataWriter   *)
(* built by compute_writer.                                                *)
(*                                                                         *)
(* Conventions.                                                            *)
(*  - std::vector<T> is a sequence; element i of the vector is seq[i+1].   *)
(*  - std::map<int, T> is a function whose DOMAIN is the key set; the      *)
(*    iteration order of the map is the increasing order of the keys.      *)
(*  - assert() is compiled out (release build); the places where an        *)
(*    assert would fire are recorded in the call record (field diag).      *)
(*  - The GLU tessellator is not part of the sources: the triangles it     *)
(*    reports for a SubPath are an input, carried by the SubPath (field    *)
(*    tess), so that the same SubPath always tessellates the same way.     *)
(***************************************************************************)
EXTENDS Integers, Sequences, FiniteSets, TLC

\* A pointer is NULL or Ptr(x), x being the object pointed to (for a
\* SubsetPrivate*: its ID); Deref(p) is *p.
NULL == <<>>
Ptr(x) == <<x>>
Deref(p) == p[1]

(***************************************************************************)
(* Program constants.                                                      *)
(***************************************************************************)
recursion_depth == 12

\* CoordinateConverterConstants::box_dim = 1 << log2_box_dim
box_dim == 4194304

\* CoordinateConverterConstants::negative_log2_fudge
negative_log2_fudge == 20

\* the client ID the tessellator hands to the vertex callback for a vertex
\* it could not produce: no ID of a point (all bits set, written here as the
\* signed value)
FASTUIDRAW_GLU_NULL_CLIENT_ID == -1
points_per_subset == 64
size_max_ratio == 4

\* PainterEnums::fill_rule_t (painter_enums.hpp is not among the sources;
\* numbering taken from the chunk table of the interface description)
nonzero_fill_rule == 0
odd_even_fill_rule == 1
complement_nonzero_fill_rule == 2
complement_odd_even_fill_rule == 3
fill_rule_data_count == 4

(***************************************************************************)
(* Bounds of the model.                                                    *)
(***************************************************************************)
\* largest number of leaves of an input subset tree (tree specification)
MaxLeaves == 2
\* largest number of leaves of an input subset tree (writer specification)
MaxWriterLeaves == 2
\* winding numbers handed to chunk_from_winding_number range over -MaxW..MaxW
MaxW == 50

(***************************************************************************)
(* Small helpers.                                                          *)
(***************************************************************************)
t_max(a, b) == IF a < b THEN b ELSE a
t_min(a, b) == IF a < b THEN a ELSE b
t_abs(a) == IF a < 0 THEN -a ELSE a

\* C++ % truncates toward zero
CRem(a, b) == IF a >= 0 THEN a % b ELSE -((-a) % b)

SetMin(S) == CHOOSE x \in S : \A y \in S : x <= y
SetMax(S) == CHOOSE x \in S : \A y \in S : y <= x

RECURSIVE SortedSeq(_)
\* the elements of a finite set of integers in increasing order
\* (iteration order of std::set<int> / the keys of std::map<int, T>)
SortedSeq(S) ==
    IF S = {} THEN <<>>
    ELSE LET m == SetMin(S) IN <<m>> \o SortedSeq(S \ {m})

RECURSIVE Flatten(_)
\* concatenation of a sequence of sequences
Flatten(ss) ==
    IF ss = <<>> THEN <<>> ELSE Head(ss) \o Flatten(Tail(ss))

Range(s) == {s[i] : i \in 1..Len(s)}

\* An array (std::vector, c_array) is a sequence and a std::map a function
\* on its keys, both held as explicit values: vector(s) and map(f) are s
\* and f with every element computed once.
vector(s) == s \o <<>>
map(f) == f @@ <<>>

\* c_array::sub_array(pos, length) and sub_array(pos)
sub_array(s, pos, length) == SubSeq(s, pos + 1, pos + length)
sub_array_from(s, pos) == sub_array(s, pos, Len(s) - pos)

(***************************************************************************)
(* Fill rules: the four standard predicates.                               *)
(***************************************************************************)
fcn_non_zero_fill_rule(w) == w # 0
fcn_complelemt_non_zero_fill_rule(w) == w = 0
fcn_odd_even_fill_rule(w) == t_abs(w) % 2 = 1
fcn_complement_odd_even_fill_rule(w) == CRem(w, 2) = 0
is_even(v) == CRem(v, 2) = 0

(***************************************************************************)
(* FilledPath::Subset::chunk_from_winding_number                           *)
(***************************************************************************)
chunk_from_winding_number_swapped_sign(winding_number) ==
    IF winding_number = 0
    THEN complement_nonzero_fill_rule
    ELSE LET value == t_abs(winding_number)
             sg == IF winding_number > 0 THEN 1 ELSE 0
         IN fill_rule_data_count + sg + 2 * (value - 1)

chunk_from_winding_number(winding_number) ==
    IF winding_number = 0
    THEN complement_nonzero_fill_rule
    ELSE LET value == t_abs(winding_number)
             sg == IF winding_number < 0 THEN 1 ELSE 0
         IN fill_rule_data_count + sg + 2 * (value - 1)

\* the range of int
INT_MAX == 2147483647
INT_MIN == (0 - INT_MAX) - 1

\* std::abs(winding_number) or fill_rule_data_count + sg + 2 * (value - 1)
\* is outside the range of int: the behaviour of the call is undefined
chunk_from_winding_number_overflows(winding_number) ==
    \/ winding_number = INT_MIN
    \/ /\ winding_number # 0
       /\ t_abs(winding_number) - 1
             > (INT_MAX - fill_rule_data_count
                   - (IF winding_number < 0 THEN 1 ELSE 0)) \div 2

\* the value returned in that case by a build whose int arithmetic wraps:
\* the sum modulo 2^32, written as the signed value of the bit pattern
\* (fill_rule_data_count + 2 * (value - 1) - 2^32 is 2 * (value - INT_MAX)
\* + fill_rule_data_count - 4); std::abs(INT_MIN) is INT_MIN there
chunk_from_winding_number_wrapped(winding_number) ==
    IF winding_number = INT_MIN
    THEN fill_rule_data_count + 1 + (0 - 2)
    ELSE (IF winding_number < 0 THEN 1 ELSE 0)
            + 2 * ((t_abs(winding_number) - INT_MAX)
                      + (fill_rule_data_count \div 2 - 2))

\* what a call can do: return a value, or, in the undefined case, also
\* stop the program (a build that traps on overflow)
chunk_from_winding_number_outcomes(winding_number) ==
    IF chunk_from_winding_number_overflows(winding_number)
    THEN {[returned |-> TRUE,
           value |-> chunk_from_winding_number_wrapped(winding_number)],
          [returned |-> FALSE, value |-> 0]}
    ELSE {[returned |-> TRUE, value |-> chunk_from_winding_number(winding_number)]}

(***************************************************************************)
(* WindingSet: [m_begin, m_end) and a bitset of length m_end - m_begin.    *)
(***************************************************************************)
WindingSet_empty == [m_begin |-> 0, m_end |-> 0, m_bits |-> <<>>]

\* fill_rule is the set of integers on which the predicate is true
extract_from_fill_fule(min_value, max_value, fill_rule, flip) ==
    LET b == min_value
        e == max_value + 1
    IN [m_begin |-> b, m_end |-> e,
        m_bits |-> vector([i \in 1..(e - b) |-> ((b + i - 1) \in fill_rule) # flip])]

extract_from_set(in_values) ==
    IF in_values = {} THEN WindingSet_empty
    ELSE LET b == SetMin(in_values)
             e == SetMax(in_values) + 1
         IN [m_begin |-> b, m_end |-> e,
             m_bits |-> vector([i \in 1..(e - b) |-> (b + i - 1) \in in_values])]

WindingSet_test(ws, w) == ws.m_bits[w - ws.m_begin + 1]

have_common_bit(self, obj) ==
    \E w \in t_max(self.m_begin, obj.m_begin)..(t_min(self.m_end, obj.m_end) - 1) :
        WindingSet_test(self, w) /\ WindingSet_test(obj, w)

WindingSet_has(ws, w) ==
    IF w >= ws.m_begin /\ w < ws.m_end THEN WindingSet_test(ws, w) ELSE FALSE

(***************************************************************************)
(* BoundingBox and SubPath.                                                *)
(*                                                                         *)
(* A SubPath is [m_total_points, m_bounds, m_winding_start, m_contours].   *)
(* The contours are kept abstract in the tree model: m_contours records    *)
(* what the code computes from them,                                       *)
(*   axis : the axis with the smaller point total found by                 *)
(*          choose_splitting_coordinate when the aspect ratio does not     *)
(*          force one,                                                     *)
(*   kids : <<>> or the pair <<[pts, ws, contours], ...>> of what          *)
(*          split_contour leaves on each side (point total, winding_start  *)
(*          increment, contours of the child),                             *)
(*   tess : the triangles the tessellator reports for this SubPath,        *)
(*          [npts |-> number of points in the PointHoard afterwards,       *)
(*           tris |-> sequence of [w |-> winding bucket, v |-> <<a,b,c>>,  *)
(*                                 m |-> <<i01, i02, i12, ic>>]]           *)
(*          one entry per non-degenerate vertex triple handed to           *)
(*          vertex_callBack (first those of the non-zero pass, then those  *)
(*          of the zero pass), v the three vertex IDs, m the IDs that      *)
(*          PointHoard::fetch returns for the three edge midpoints and     *)
(*          the centre; IDs are counted from 0.                            *)
(***************************************************************************)
BoundingBox(pmin, pmax) == [m_min |-> pmin, m_max |-> pmax]

\* BoundingBox::inflated_polygon(bb, 0.0f): the four corners
inflated_polygon(bb) ==
    << <<bb.m_min[1], bb.m_min[2]>>, <<bb.m_min[1], bb.m_max[2]>>,
       <<bb.m_max[1], bb.m_max[2]>>, <<bb.m_max[1], bb.m_min[2]>> >>

SubPath_choose_splitting_coordinate(Q) ==
    LET wh == <<Q.m_bounds.m_max[1] - Q.m_bounds.m_min[1],
                Q.m_bounds.m_max[2] - Q.m_bounds.m_min[2]>>
    IN IF wh[1] >= size_max_ratio * wh[2] THEN 0
       ELSE IF wh[2] >= size_max_ratio * wh[1] THEN 1
       ELSE Q.m_contours.axis

SubPath_split_second_child_from_min(Q) ==
    LET bmin == Q.m_bounds.m_min
        bmax == Q.m_bounds.m_max
        mid_pt == <<(bmax[1] + bmin[1]) \div 2, (bmax[2] + bmin[2]) \div 2>>
        sc == SubPath_choose_splitting_coordinate(Q)
        B0_max == [i \in 1..2 |-> IF i = sc + 1 THEN mid_pt[i] ELSE bmax[i]]
        B0 == BoundingBox(bmin, B0_max)
        B1 == BoundingBox(bmin, bmax)
        K == Q.m_contours.kids
        child(B, k) == [m_total_points |-> k.pts,
                        m_bounds |-> B,
                        m_winding_start |-> k.ws + Q.m_winding_start,
                        m_contours |-> k.contours]
    IN << child(B0, K[1]), child(B1, K[2]) >>

\* SubPath::split: the two children; coordinate c of a vec2 p is p[c + 1].
\* Box coordinates of the model are even wherever a box is split, so that
\* 0.5f * (max + min) is exact.
SubPath_split(Q) ==
    LET bmin == Q.m_bounds.m_min
        bmax == Q.m_bounds.m_max
        mid_pt == <<(bmax[1] + bmin[1]) \div 2, (bmax[2] + bmin[2]) \div 2>>
        sc == SubPath_choose_splitting_coordinate(Q)
        B0_max == [i \in 1..2 |-> IF i = sc + 1 THEN mid_pt[i] ELSE bmax[i]]
        B1_min == [i \in 1..2 |-> IF i = sc + 1 THEN mid_pt[i] ELSE bmin[i]]
        B0 == BoundingBox(bmin, B0_max)
        B1 == BoundingBox(B1_min, bmax)
        K == Q.m_contours.kids
        child(B, k) == [m_total_points |-> k.pts,
                        m_bounds |-> B,
                        m_winding_start |-> k.ws + Q.m_winding_start,
                        m_contours |-> k.contours]
    IN << child(B0, K[1]), child(B1, K[2]) >>

(***************************************************************************)
(* SubPath with its contours.  Where the contours themselves matter a      *)
(* SubPath is [m_total_points, m_bounds, m_winding_start, m_contours] with *)
(* m_contours a sequence of SubContours, a SubContour a sequence of        *)
(* SubContourPoints [m_pt, m_start_tessellated_edge, m_boundary_type,      *)
(* m_corner_point_type]; coordinate c of a vecN v is v[c + 1].             *)
(***************************************************************************)
\* enum on_boundary_t
on_min_boundary == 0
on_max_boundary == 1
not_on_boundary == 2

\* the corner flags; box_min_x_min_y = 0, box_max_x_min_y = 1,
\* box_min_x_max_y = 2, box_max_x_max_y = 3
box_max_x_flag == 1
box_max_y_flag == 2

box_next_neighbor(v) == <<2, 0, 3, 1>>[v + 1]

\* SubContourPoint::SubContourPoint(p, start)
SubContourPoint(p, start) ==
    [m_pt |-> p,
     m_start_tessellated_edge |-> start,
     m_boundary_type |-> <<not_on_boundary, not_on_boundary>>,
     m_corner_point_type |-> 4]

is_corner_point(p) ==
    p.m_boundary_type[1] # not_on_boundary /\ p.m_boundary_type[2] # not_on_boundary

\* corner_point_type(): its asserts are compiled out
corner_point_type(p) == p.m_corner_point_type

SubContourPoint_split_keeping_tag_of_a(a, b, pt, split_coordinate, tp) ==
    LET bt == [i \in 1..2 |-> IF i = split_coordinate + 1 THEN a.m_boundary_type[i]
                              ELSE IF a.m_boundary_type[i] = b.m_boundary_type[i]
                                   THEN a.m_boundary_type[i]
                                   ELSE not_on_boundary]
        corner == bt[1] # not_on_boundary /\ bt[2] # not_on_boundary
    IN [m_pt |-> pt,
        m_start_tessellated_edge |-> TRUE,
        m_boundary_type |-> bt,
        m_corner_point_type |->
            IF corner
            THEN (IF bt[1] = on_max_boundary THEN box_max_x_flag ELSE 0)
                 + (IF bt[2] = on_max_boundary THEN box_max_y_flag ELSE 0)
            ELSE 4]

\* SubContourPoint::SubContourPoint(a, b, pt, split_coordinate, tp): the
\* point where the edge from a to b meets the cut
SubContourPoint_split(a, b, pt, split_coordinate, tp) ==
    LET bt == [i \in 1..2 |-> IF i = split_coordinate + 1 THEN tp
                              ELSE IF a.m_boundary_type[i] = b.m_boundary_type[i]
                                   THEN a.m_boundary_type[i]
                                   ELSE not_on_boundary]
        corner == bt[1] # not_on_boundary /\ bt[2] # not_on_boundary
    IN [m_pt |-> pt,
        m_start_tessellated_edge |-> TRUE,
        m_boundary_type |-> bt,
        m_corner_point_type |->
            IF corner
            THEN (IF bt[1] = on_max_boundary THEN box_max_x_flag ELSE 0)
                 + (IF bt[2] = on_max_boundary THEN box_max_y_flag ELSE 0)
            ELSE 4]

\* the points of the contours, in order
ContourPoints(contours) == Flatten(contours)

\* the predecessor of point i of contour C in the loops that start with
\* prev_pt = C.back()
PrevOf(C, i) == IF i = 1 THEN C[Len(C)] ELSE C[i - 1]

\* choose_splitting_coordinate, the counting loop: what the body adds to
\* number_points_before[i] + number_points_after[i] for one point
choose_splitting_coordinate_count(prev_pt, pt, mid_pt, i) ==
    LET prev_b == prev_pt[i] < mid_pt[i]
        b == pt[i] < mid_pt[i]
    IN (IF b \/ pt[i] = mid_pt[i] THEN 1 ELSE 0)
       + (IF ~b \/ pt[i] = mid_pt[i] THEN 1 ELSE 0)
       + (IF prev_pt[i] # mid_pt[i] /\ prev_b # b THEN 2 ELSE 0)

RECURSIVE choose_splitting_coordinate_sum(_, _, _, _, _)
\* what the points lo..hi of contour C add (the sum is taken by halves to
\* keep the evaluation shallow)
choose_splitting_coordinate_sum(C, mid_pt, i, lo, hi) ==
    IF lo > hi THEN 0
    ELSE IF lo = hi
    THEN choose_splitting_coordinate_count(PrevOf(C, lo).m_pt, C[lo].m_pt, mid_pt, i)
    ELSE choose_splitting_coordinate_sum(C, mid_pt, i, lo, (lo + hi) \div 2)
         + choose_splitting_coordinate_sum(C, mid_pt, i, ((lo + hi) \div 2) + 1, hi)

RECURSIVE choose_splitting_coordinate_number_points(_, _, _)
\* number_points[i - 1] after the loop over the contours
choose_splitting_coordinate_number_points(contours, mid_pt, i) ==
    IF contours = <<>> THEN 0
    ELSE choose_splitting_coordinate_sum(Head(contours), mid_pt, i, 1,
                                         Len(Head(contours)))
         + choose_splitting_coordinate_number_points(Tail(contours), mid_pt, i)

choose_splitting_coordinate_ratio_strict(Q, mid_pt) ==
    LET wh == <<Q.m_bounds.m_max[1] - Q.m_bounds.m_min[1],
                Q.m_bounds.m_max[2] - Q.m_bounds.m_min[2]>>
    IN IF wh[1] > size_max_ratio * wh[2] THEN 0
       ELSE IF wh[2] > size_max_ratio * wh[1] THEN 1
       ELSE IF choose_splitting_coordinate_number_points(Q.m_contours, mid_pt, 1)
                 < choose_splitting_coordinate_number_points(Q.m_contours, mid_pt, 2)
       THEN 0
       ELSE 1

\* SubPath::choose_splitting_coordinate
choose_splitting_coordinate(Q, mid_pt) ==
    LET wh == <<Q.m_bounds.m_max[1] - Q.m_bounds.m_min[1],
                Q.m_bounds.m_max[2] - Q.m_bounds.m_min[2]>>
    IN IF wh[1] >= size_max_ratio * wh[2] THEN 0
       ELSE IF wh[2] >= size_max_ratio * wh[1] THEN 1
       ELSE IF choose_splitting_coordinate_number_points(Q.m_contours, mid_pt, 1)
                 < choose_splitting_coordinate_number_points(Q.m_contours, mid_pt, 2)
       THEN 0
       ELSE 1

\* SubPath::compute_spit_point: the split coordinate is splitting_value
\* itself; the other one is (1 - t) * aa + t * bb with t = n / d, which is
\* rounded to the grid of the model as the code rounds it to a float
compute_spit_point(a, b, splitting_coordinate, splitting_value) ==
    LET n == splitting_value - a[splitting_coordinate + 1]
        d == b[splitting_coordinate + 1] - a[splitting_coordinate + 1]
        aa == a[2 - splitting_coordinate]
        bb == b[2 - splitting_coordinate]
        num == IF d < 0 THEN 0 - (aa * (d - n) + bb * n) ELSE aa * (d - n) + bb * n
        den == IF d < 0 THEN 0 - d ELSE d
        other == IF den = 0 THEN bb ELSE num \div den
    IN [i \in 1..2 |-> IF i = splitting_coordinate + 1 THEN splitting_value
                       ELSE other]

\* split_contour, the body of the loop for one point: what is pushed to C0
\* and to C1
split_contour_step(prev_pt, pt, splitting_coordinate, splitting_value) ==
    LET prev_b0 == prev_pt.m_pt[splitting_coordinate + 1] <= splitting_value
        b0 == pt.m_pt[splitting_coordinate + 1] <= splitting_value
        prev_b1 == prev_pt.m_pt[splitting_coordinate + 1] >= splitting_value
        b1 == pt.m_pt[splitting_coordinate + 1] >= splitting_value
        split_pt == compute_spit_point(prev_pt.m_pt, pt.m_pt,
                                       splitting_coordinate, splitting_value)
    IN [C0 |-> (IF prev_b0 # b0
                THEN <<SubContourPoint_split(prev_pt, pt, split_pt,
                                             splitting_coordinate, on_max_boundary)>>
                ELSE <<>>)
               \o (IF b0 THEN <<pt>> ELSE <<>>),
        C1 |-> (IF prev_b1 # b1
                THEN <<SubContourPoint_split(prev_pt, pt, split_pt,
                                             splitting_coordinate, on_min_boundary)>>
                ELSE <<>>)
               \o (IF b1 THEN <<pt>> ELSE <<>>)]

RECURSIVE split_contour_loop(_, _, _, _, _)
\* split_contour up to the calls of post_process_sub_contour: what the
\* points lo..hi of src add to C0 and C1, in order (taken by halves to keep
\* the evaluation shallow)
split_contour_loop(src, splitting_coordinate, splitting_value, lo, hi) ==
    IF lo > hi THEN [C0 |-> <<>>, C1 |-> <<>>]
    ELSE IF lo = hi
    THEN split_contour_step(PrevOf(src, lo), src[lo],
                            splitting_coordinate, splitting_value)
    ELSE LET l == split_contour_loop(src, splitting_coordinate, splitting_value,
                                     lo, (lo + hi) \div 2)
             r == split_contour_loop(src, splitting_coordinate, splitting_value,
                                     ((lo + hi) \div 2) + 1, hi)
         IN [C0 |-> l.C0 \o r.C0, C1 |-> l.C1 \o r.C1]

RECURSIVE post_process_sub_contour_loop(_, _, _, _, _)
\* post_process_sub_contour, the loop from point v on: the counter, or
\* <<>> when the loop returns 0 early
post_process_sub_contour_loop(C, v, prev_corner_type, forwards_counter, backwards_counter) ==
    IF v > Len(C) THEN <<backwards_counter - forwards_counter>>
    ELSE IF ~is_corner_point(C[v]) THEN <<>>
    ELSE IF corner_point_type(C[v]) = box_next_neighbor(prev_corner_type)
    THEN post_process_sub_contour_loop(C, v + 1, corner_point_type(C[v]),
                                       forwards_counter + 1, backwards_counter)
    ELSE IF prev_corner_type = box_next_neighbor(corner_point_type(C[v]))
    THEN post_process_sub_contour_loop(C, v + 1, corner_point_type(C[v]),
                                       forwards_counter, backwards_counter + 1)
    ELSE <<>>

post_process_sub_contour_keeping_contour(C) ==
    IF C = <<>> \/ ~is_corner_point(C[Len(C)])
    THEN [C |-> C, return_value |-> 0]
    ELSE LET counter == post_process_sub_contour_loop(
                            C, 1, corner_point_type(C[Len(C)]), 0, 0)
         IN IF counter # <<>> /\ CRem(counter[1], 4) = 0
            THEN [C |-> C, return_value |-> counter[1] \div 4]
            ELSE [C |-> C, return_value |-> 0]

\* SubPath::post_process_sub_contour: C afterwards and the value returned
post_process_sub_contour(C) ==
    IF C = <<>> \/ ~is_corner_point(C[Len(C)])
    THEN [C |-> C, return_value |-> 0]
    ELSE LET counter == post_process_sub_contour_loop(
                            C, 1, corner_point_type(C[Len(C)]), 0, 0)
         IN IF counter # <<>> /\ CRem(counter[1], 4) = 0
            THEN [C |-> <<>>, return_value |-> counter[1] \div 4]
            ELSE [C |-> C, return_value |-> 0]

\* SubPath::split_contour: C0 and C1 afterwards, and what is added to
\* C0_winding_start and C1_winding_start
split_contour(src, splitting_coordinate, splitting_value) ==
    LET r == split_contour_loop(src, splitting_coordinate, splitting_value,
                                1, Len(src))
        p0 == post_process_sub_contour(r.C0)
        p1 == post_process_sub_contour(r.C1)
    IN [C0 |-> p0.C, C1 |-> p1.C,
        C0_winding_start |-> p0.return_value,
        C1_winding_start |-> p1.return_value]

RECURSIVE split_contours(_, _, _)
\* split, the loop over m_contours: the non-empty child contours of each
\* side and the two sums
split_contours(contours, splitting_coordinate, splitting_value) ==
    IF contours = <<>>
    THEN [C0 |-> <<>>, C1 |-> <<>>, C0_winding_start |-> 0, C1_winding_start |-> 0]
    ELSE LET s == split_contour(Head(contours), splitting_coordinate, splitting_value)
             r == split_contours(Tail(contours), splitting_coordinate, splitting_value)
         IN [C0 |-> (IF s.C0 = <<>> THEN <<>> ELSE <<s.C0>>) \o r.C0,
             C1 |-> (IF s.C1 = <<>> THEN <<>> ELSE <<s.C1>>) \o r.C1,
             C0_winding_start |-> s.C0_winding_start + r.C0_winding_start,
             C1_winding_start |-> s.C1_winding_start + r.C1_winding_start]

\* SubPath::SubPath(bb, contours, winding_start)
SubPath(bb, contours, winding_start) ==
    [m_total_points |-> Len(ContourPoints(contours)),
     m_bounds |-> bb,
     m_winding_start |-> winding_start,
     m_contours |-> contours]

\* SubPath::split on a SubPath with its contours.  The boxes of the model
\* have even coordinates wherever they are split, so that
\* 0.5f * (max + min) is exact.
split(Q) ==
    LET bmin == Q.m_bounds.m_min
        bmax == Q.m_bounds.m_max
        mid_pt == <<(bmax[1] + bmin[1]) \div 2, (bmax[2] + bmin[2]) \div 2>>
        sc == choose_splitting_coordinate(Q, mid_pt)
        B0_max == [i \in 1..2 |-> IF i = sc + 1 THEN mid_pt[i] ELSE bmax[i]]
        B1_min == [i \in 1..2 |-> IF i = sc + 1 THEN mid_pt[i] ELSE bmin[i]]
        r == split_contours(Q.m_contours, sc, mid_pt[sc + 1])
    IN << SubPath(BoundingBox(bmin, B0_max), r.C0,
                  r.C0_winding_start + Q.m_winding_start),
          SubPath(BoundingBox(B1_min, bmax), r.C1,
                  r.C1_winding_start + Q.m_winding_start) >>

(***************************************************************************)
(* builder: the PointHoard's FillPoints and the winding_index_hoard after  *)
(* the non-zero and the zero pass.                                         *)
(***************************************************************************)
\* position of the point with ID v of sub-path P (distinct per ID)
FillPoint_pos(P, v) == <<P.m_bounds.m_min[1] + v, P.m_bounds.m_min[2] + (v % 2)>>

\* tesser::vertex_callBack on the third vertex of a non-degenerate triple:
\* the vertices of the six add_triangle calls, in order
vertex_callBack(t) ==
    << t.v[1], t.m[1], t.m[4],   t.v[1], t.m[4], t.m[2],
       t.m[4], t.v[2], t.m[3],   t.m[1], t.v[2], t.m[4],
       t.m[2], t.m[4], t.v[3],   t.m[4], t.m[3], t.v[3] >>

\* non_zero_tesser/zero_tesser::add_vertex_to_polygon: add_index on the
\* bucket of the current winding and add_to_winding_set on the vertex.
\* zero_tesser's constructor creates the bucket hoard[winding_start] even
\* when it stays empty.
builder(P) ==
    LET T == P.m_contours.tess
        keys == {T.tris[i].w : i \in 1..Len(T.tris)} \cup {P.m_winding_start}
        withw(w) == SelectSeq(T.tris, LAMBDA t : t.w = w)
    IN [m_points |->
          vector([i \in 1..T.npts |->
             [m_pt |-> FillPoint_pos(P, i - 1),
              m_winding |-> {T.tris[j].w : j \in {k \in 1..Len(T.tris) :
                                (i - 1) \in Range(vertex_callBack(T.tris[k]))}}]]),
        m_hoard |->
          map([w \in keys |->
              Flatten([j \in 1..Len(withw(w)) |-> vertex_callBack(withw(w)[j])])])]

fill_indices_zero_after_even_only(m_hoard) ==
    LET keys == SortedSeq(DOMAIN m_hoard)
        cls(w) == IF w = 0 THEN 2 ELSE IF is_even(w) THEN 1 ELSE 0
        count(w) == Len(m_hoard[w])
        RECURSIVE Sum(_)
        Sum(S) == IF S = {} THEN 0
                  ELSE LET x == CHOOSE x \in S : TRUE IN count(x) + Sum(S \ {x})
        num_odd == Sum({w \in DOMAIN m_hoard : cls(w) = 0})
        num_even_non_zero == Sum({w \in DOMAIN m_hoard : cls(w) = 1})
        total == Sum(DOMAIN m_hoard)
        start(c) == IF c = 0 THEN 0 ELSE IF c = 1 THEN num_odd
                    ELSE num_even_non_zero
        \* value of current_odd / current_even_non_zero / current_zero when
        \* the loop reaches key w
        offset(w) == start(cls(w))
                     + Sum({u \in DOMAIN m_hoard : cls(u) = cls(w) /\ u < w})
        ofclass(c) == SelectSeq(keys, LAMBDA w : cls(w) = c)
        region(c) == Flatten([j \in 1..Len(ofclass(c)) |-> m_hoard[ofclass(c)[j]]])
        indices == region(0) \o region(1) \o region(2)
    IN [indices |-> indices,
        winding_map |-> map([w \in {u \in DOMAIN m_hoard : count(u) > 0} |->
                                sub_array(indices, offset(w), count(w))]),
        sub_range |-> map([w \in {u \in DOMAIN m_hoard : count(u) > 0} |->
                                [offset |-> offset(w), size |-> count(w)]]),
        even_non_zero_start |-> num_odd,
        zero_start |-> num_odd + num_even_non_zero]

\* builder::fill_indices: odd buckets, then even non-zero buckets, then the
\* zero bucket, each class in increasing key order; winding_map gets an
\* entry only for a bucket with count() > 0.
fill_indices(m_hoard) ==
    LET keys == SortedSeq(DOMAIN m_hoard)
        cls(w) == IF w = 0 THEN 2 ELSE IF is_even(w) THEN 1 ELSE 0
        count(w) == Len(m_hoard[w])
        RECURSIVE Sum(_)
        Sum(S) == IF S = {} THEN 0
                  ELSE LET x == CHOOSE x \in S : TRUE IN count(x) + Sum(S \ {x})
        num_odd == Sum({w \in DOMAIN m_hoard : cls(w) = 0})
        num_even_non_zero == Sum({w \in DOMAIN m_hoard : cls(w) = 1})
        total == Sum(DOMAIN m_hoard)
        start(c) == IF c = 0 THEN 0 ELSE IF c = 1 THEN num_odd
                    ELSE num_even_non_zero + num_odd
        \* value of current_odd / current_even_non_zero / current_zero when
        \* the loop reaches key w
        offset(w) == start(cls(w))
                     + Sum({u \in DOMAIN m_hoard : cls(u) = cls(w) /\ u < w})
        ofclass(c) == SelectSeq(keys, LAMBDA w : cls(w) = c)
        region(c) == Flatten([j \in 1..Len(ofclass(c)) |-> m_hoard[ofclass(c)[j]]])
        indices == region(0) \o region(1) \o region(2)
    IN [indices |-> indices,
        winding_map |-> map([w \in {u \in DOMAIN m_hoard : count(u) > 0} |->
                                sub_array(indices, offset(w), count(w))]),
        sub_range |-> map([w \in {u \in DOMAIN m_hoard : count(u) > 0} |->
                                [offset |-> offset(w), size |-> count(w)]]),
        even_non_zero_start |-> num_odd,
        zero_start |-> num_odd + num_even_non_zero]

(***************************************************************************)
(* builder, callback by callback.  The builder of a                        *)
(* make_ready_from_sub_path call in progress is the record b with          *)
(*   m_bounds, m_winding_start : bounds() and winding_start() of the       *)
(*        SubPath,                                                         *)
(*   m_pts, m_map : the FillPoints and the map of the PointHoard,          *)
(*   m_hoard : the winding_index_hoard, key |-> indices of the bucket,     *)
(*   m_temp_verts, m_temp_vert_count, m_triangulation_failed : the tesser  *)
(*        of the pass in progress,                                         *)
(*   m_current_winding, m_current_indices : the non_zero_tesser (a bucket  *)
(*        is referred to by its key),                                      *)
(*   m_indices : the zero_tesser,                                          *)
(*   failNZ, failZ, m_failed : the locals and the flag of builder,         *)
(*   stage : "start", "non_zero", "zero", "built", "baked",                *)
(*   events, pc : the callbacks the tessellator makes in the two passes    *)
(*        (<<"begin", winding_number>> or <<"vertex", vertex_id>>) and     *)
(*        the number of callbacks of the pass in progress already made.    *)
(***************************************************************************)
\* CoordinateConverter::iapply: static_cast<int>(scale * (pt - translate))
\* with scale = box_dim / (max - min); the boxes of the model have a power
\* of two as width and height and the points integer coordinates, so that
\* the single precision product is exact: a multiple of the offset for a
\* box of up to box_dim, the offset divided and cut off towards zero for a
\* larger one
CoordinateConverter_iapply(bounds, pt) ==
    vector([i \in 1..2 |->
        IF bounds.m_max[i] - bounds.m_min[i] <= box_dim
        THEN (box_dim \div (bounds.m_max[i] - bounds.m_min[i]))
                * (pt[i] - bounds.m_min[i])
        ELSE IF pt[i] >= bounds.m_min[i]
        THEN (pt[i] - bounds.m_min[i])
                \div ((bounds.m_max[i] - bounds.m_min[i]) \div box_dim)
        ELSE 0 - ((bounds.m_min[i] - pt[i])
                     \div ((bounds.m_max[i] - bounds.m_min[i]) \div box_dim))])

\* PointHoard::fetch: the value returned, and the hoard afterwards
PointHoard_fetch_value(b, pt) ==
    IF CoordinateConverter_iapply(b.m_bounds, pt) \in DOMAIN b.m_map
    THEN b.m_map[CoordinateConverter_iapply(b.m_bounds, pt)]
    ELSE Len(b.m_pts)
PointHoard_fetch_overwriting_position(b, pt) ==
    IF CoordinateConverter_iapply(b.m_bounds, pt) \in DOMAIN b.m_map
    THEN [b EXCEPT !.m_pts[b.m_map[CoordinateConverter_iapply(b.m_bounds, pt)] + 1].m_pt = pt]
    ELSE [b EXCEPT !.m_pts = Append(@, [m_pt |-> pt, m_winding |-> {}]),
                   !.m_map = map((CoordinateConverter_iapply(b.m_bounds, pt)
                                     :> Len(b.m_pts)) @@ @)]

PointHoard_fetch(b, pt) ==
    IF CoordinateConverter_iapply(b.m_bounds, pt) \in DOMAIN b.m_map
    THEN b
    ELSE [b EXCEPT !.m_pts = Append(@, [m_pt |-> pt, m_winding |-> {}]),
                   !.m_map = map((CoordinateConverter_iapply(b.m_bounds, pt)
                                     :> Len(b.m_pts)) @@ @)]

RECURSIVE PointHoard_generate_path(_, _)
\* PointHoard::generate_path: the hoard after the points of the contours
\* have been fetched in order
PointHoard_generate_path(b, pts) ==
    IF pts = <<>> THEN b
    ELSE PointHoard_generate_path(
             [PointHoard_fetch(b, Head(pts)) EXCEPT
                 !.m_path = Append(@, PointHoard_fetch_value(b, Head(pts)))],
             Tail(pts))

\* a double of the tessellator's coordinates: <<a, k>> is a + k * 2^-20,
\* with a an integer of at most box_dim and k a count below 2^20, which a
\* double holds exactly
Double(a, k) == <<a, k>>

\* x < y for two such doubles
DoubleLess(x, y) ==
    IF y[1] - x[1] >= 2 THEN TRUE
    ELSE IF y[1] - x[1] <= 0 - 2 THEN FALSE
    ELSE (y[1] - x[1]) * (2 ^ negative_log2_fudge) > x[2] - y[2]

\* CoordinateConverter::apply: scale * (pt - translate) + fudge_count *
\* 2^-20 in double precision, for bounds whose width and height are powers
\* of two of at most box_dim and points with integer coordinates
CoordinateConverter_apply(bounds, pt, fudge_count) ==
    vector([i \in 1..2 |->
        Double((box_dim \div (bounds.m_max[i] - bounds.m_min[i]))
                  * (pt[i] - bounds.m_min[i]),
               fudge_count)])

\* fastuidraw_gluTessVertex(m_tess, x, y, I)
gluTessVertex(b, x, y, I) == [b EXCEPT !.m_tess_vertices = Append(@, <<x, y, I>>)]

RECURSIVE tesser_add_contour(_, _)
\* tesser::add_contour, for the IDs C of a contour: each vertex is handed
\* over at apply(m_points[I], m_point_count) and m_point_count goes up
tesser_add_contour(b, C) ==
    IF C = <<>> THEN b
    ELSE tesser_add_contour(
             [gluTessVertex(b,
                  CoordinateConverter_apply(b.m_bounds, b.m_pts[Head(C) + 1].m_pt,
                                            b.m_point_count)[1],
                  CoordinateConverter_apply(b.m_bounds, b.m_pts[Head(C) + 1].m_pt,
                                            b.m_point_count)[2],
                  Head(C))
                EXCEPT !.m_point_count = @ + 1],
             Tail(C))

\* tesser::add_path, then add_bounding_box_path: enable_guiding_boxes is
\* false, so that generate_contour leaves the bounding box path empty
tesser_add_path(b) == tesser_add_contour(b, b.m_path)

\* tesser::tesser: m_temp_verts and m_temp_vert_count are not initialized;
\* indeterminate is the value m_temp_vert_count happens to have
tesser_ctor(b, indeterminate) ==
    [b EXCEPT !.m_point_count = 0,
              !.m_tess_vertices = <<>>,
              !.m_triangulation_failed = FALSE,
              !.m_temp_vert_count = indeterminate]

\* non_zero_tesser::non_zero_tesser up to start()
non_zero_tesser_ctor(b, indeterminate) ==
    [tesser_add_path(tesser_ctor(b, indeterminate)) EXCEPT !.m_current_winding = 0,
                                          !.m_current_indices = NULL,
                                          !.stage = "non_zero",
                                          !.pc = 0]

tesser_add_path_boundary_vertex_without_slack(b, k) ==
    gluTessVertex(
        PointHoard_fetch(b, <<IF k \div box_max_x_flag % 2 = 1
                              THEN b.m_bounds.m_max[1] ELSE b.m_bounds.m_min[1],
                              IF k \div box_max_y_flag % 2 = 1
                              THEN b.m_bounds.m_max[2] ELSE b.m_bounds.m_min[2]>>),
        IF k \div box_max_x_flag % 2 = 1 THEN Double(box_dim, 0) ELSE Double(0, 0),
        IF k \div box_max_y_flag % 2 = 1 THEN Double(box_dim, 0) ELSE Double(0, 0),
        PointHoard_fetch_value(b, <<IF k \div box_max_x_flag % 2 = 1
                                    THEN b.m_bounds.m_max[1] ELSE b.m_bounds.m_min[1],
                                    IF k \div box_max_y_flag % 2 = 1
                                    THEN b.m_bounds.m_max[2] ELSE b.m_bounds.m_min[2]>>))

\* tesser::add_path_boundary, the corner k of the loop: slack is
\* m_point_count * 2^-20; the vertex is handed over at slack + box_dim on a
\* max side and at -slack on a min side, with the ID of the corner of the
\* bounds
tesser_add_path_boundary_vertex(b, k) ==
    gluTessVertex(
        PointHoard_fetch(b, <<IF k \div box_max_x_flag % 2 = 1
                              THEN b.m_bounds.m_max[1] ELSE b.m_bounds.m_min[1],
                              IF k \div box_max_y_flag % 2 = 1
                              THEN b.m_bounds.m_max[2] ELSE b.m_bounds.m_min[2]>>),
        IF k \div box_max_x_flag % 2 = 1
        THEN Double(box_dim, b.m_point_count) ELSE Double(0, 0 - b.m_point_count),
        IF k \div box_max_y_flag % 2 = 1
        THEN Double(box_dim, b.m_point_count) ELSE Double(0, 0 - b.m_point_count),
        PointHoard_fetch_value(b, <<IF k \div box_max_x_flag % 2 = 1
                                    THEN b.m_bounds.m_max[1] ELSE b.m_bounds.m_min[1],
                                    IF k \div box_max_y_flag % 2 = 1
                                    THEN b.m_bounds.m_max[2] ELSE b.m_bounds.m_min[2]>>))

\* tesser::add_path_boundary: the corners box_min_x_min_y, box_min_x_max_y,
\* box_max_x_max_y, box_max_x_min_y in this order
tesser_add_path_boundary(b) ==
    tesser_add_path_boundary_vertex(
        tesser_add_path_boundary_vertex(
            tesser_add_path_boundary_vertex(
                tesser_add_path_boundary_vertex(b, 0),
                box_max_y_flag),
            box_max_x_flag + box_max_y_flag),
        box_max_x_flag)

\* zero_tesser::zero_tesser: hoard[winding_start] is created when the
\* non-zero pass has not; the contours handed to the tessellator include
\* the boundary of the bounds
zero_tesser_ctor(b, indeterminate) ==
    [tesser_add_path_boundary(tesser_add_path(tesser_ctor(b, indeterminate))) EXCEPT
        !.m_hoard = IF b.m_winding_start \in DOMAIN @ THEN @
                    ELSE map((b.m_winding_start :> <<>>) @@ @),
        !.m_indices = Ptr(b.m_winding_start),
        !.stage = "zero",
        !.pc = 0]

non_zero_tesser_on_begin_polygon_without_winding_start(b, winding_number) ==
    IF b.m_current_indices = NULL \/ b.m_current_winding # winding_number
    THEN [b EXCEPT !.m_hoard = IF winding_number \in DOMAIN @ THEN @
                               ELSE map((winding_number :> <<>>) @@ @),
                   !.m_current_winding = winding_number,
                   !.m_current_indices = Ptr(winding_number)]
    ELSE b

\* non_zero_tesser::on_begin_polygon
non_zero_tesser_on_begin_polygon(b, winding_number) ==
    IF b.m_current_indices = NULL
         \/ b.m_current_winding # winding_number + b.m_winding_start
    THEN [b EXCEPT !.m_hoard = IF winding_number + b.m_winding_start \in DOMAIN @
                               THEN @
                               ELSE map((winding_number + b.m_winding_start :> <<>>) @@ @),
                   !.m_current_winding = winding_number + b.m_winding_start,
                   !.m_current_indices = Ptr(winding_number + b.m_winding_start)]
    ELSE b

\* zero_tesser::on_begin_polygon: asserts winding_number == -1
zero_tesser_on_begin_polygon(b, winding_number) == b

tesser_begin_callBack_keeping_count(b, winding_number) ==
    IF b.stage = "non_zero"
    THEN non_zero_tesser_on_begin_polygon(b, winding_number)
    ELSE zero_tesser_on_begin_polygon(b, winding_number)

\* tesser::begin_callBack
tesser_begin_callBack(b, winding_number) ==
    IF b.stage = "non_zero"
    THEN non_zero_tesser_on_begin_polygon([b EXCEPT !.m_temp_vert_count = 0],
                                          winding_number)
    ELSE zero_tesser_on_begin_polygon([b EXCEPT !.m_temp_vert_count = 0],
                                      winding_number)

\* per_winding_data::add_index and PointHoard::add_to_winding_set on the
\* bucket of key key
per_winding_data_add_index(b, key, vertex) ==
    [b EXCEPT !.m_hoard[key] = Append(@, vertex),
              !.m_pts[vertex + 1].m_winding = @ \cup {key}]

\* non_zero_tesser::add_vertex_to_polygon / zero_tesser::add_vertex_to_polygon
tesser_add_vertex_to_polygon(b, vertex) ==
    IF b.stage = "non_zero"
    THEN per_winding_data_add_index(b, Deref(b.m_current_indices), vertex)
    ELSE per_winding_data_add_index(b, Deref(b.m_indices), vertex)

RECURSIVE tesser_add_triangles(_, _)
\* tesser::add_triangle for each three of the vertices of vs, in order
tesser_add_triangles(b, vs) ==
    IF vs = <<>> THEN b
    ELSE tesser_add_triangles(tesser_add_vertex_to_polygon(b, Head(vs)), Tail(vs))

\* tesser::temp_verts_non_degenerate_triangle; the area is that of the
\* integer coordinates of the model
tesser_temp_verts_non_degenerate_triangle(b) ==
    LET p0 == b.m_pts[b.m_temp_verts[1] + 1].m_pt
        p1 == b.m_pts[b.m_temp_verts[2] + 1].m_pt
        p2 == b.m_pts[b.m_temp_verts[3] + 1].m_pt
        v == <<p1[1] - p0[1], p1[2] - p0[2]>>
        w == <<p2[1] - p0[1], p2[2] - p0[2]>>
    IN IF b.m_temp_verts[1] = b.m_temp_verts[2]
          \/ b.m_temp_verts[1] = b.m_temp_verts[3]
          \/ b.m_temp_verts[2] = b.m_temp_verts[3]
       THEN FALSE
       ELSE IF p0 = p1 \/ p0 = p2 \/ p1 = p2
       THEN FALSE
       ELSE t_abs(v[1] * w[2] - v[2] * w[1]) > 0

\* tesser::vertex_callBack, the body of the test on the three vertices: the
\* four fetches and the six add_triangle calls.  The coordinates of the
\* model make 0.5f * (p + q) and (p0 + p1 + p2) / 3.0f exact.
tesser_vertex_callBack_triangles(b) ==
    LET p0 == b.m_pts[b.m_temp_verts[1] + 1].m_pt
        p1 == b.m_pts[b.m_temp_verts[2] + 1].m_pt
        p2 == b.m_pts[b.m_temp_verts[3] + 1].m_pt
        m01 == <<(p0[1] + p1[1]) \div 2, (p0[2] + p1[2]) \div 2>>
        m02 == <<(p0[1] + p2[1]) \div 2, (p0[2] + p2[2]) \div 2>>
        m12 == <<(p1[1] + p2[1]) \div 2, (p1[2] + p2[2]) \div 2>>
        c == <<(p0[1] + p1[1] + p2[1]) \div 3, (p0[2] + p1[2] + p2[2]) \div 3>>
        b1 == PointHoard_fetch(b, m01)
        b2 == PointHoard_fetch(b1, m02)
        b3 == PointHoard_fetch(b2, m12)
        b4 == PointHoard_fetch(b3, c)
    IN tesser_add_triangles(b4,
          vertex_callBack([v |-> b.m_temp_verts,
                           m |-> <<PointHoard_fetch_value(b, m01),
                                   PointHoard_fetch_value(b1, m02),
                                   PointHoard_fetch_value(b2, m12),
                                   PointHoard_fetch_value(b3, c)>>]))

\* tesser::vertex_callBack after the vertex has been stored and counted
tesser_vertex_callBack_stored(b) ==
    IF b.m_temp_vert_count = 3
    THEN IF b.m_temp_verts[1] # FASTUIDRAW_GLU_NULL_CLIENT_ID
            /\ b.m_temp_verts[2] # FASTUIDRAW_GLU_NULL_CLIENT_ID
            /\ b.m_temp_verts[3] # FASTUIDRAW_GLU_NULL_CLIENT_ID
            /\ tesser_temp_verts_non_degenerate_triangle(b)
         THEN tesser_vertex_callBack_triangles([b EXCEPT !.m_temp_vert_count = 0])
         ELSE [b EXCEPT !.m_temp_vert_count = 0]
    ELSE b

tesser_vertex_callBack_forgetting_failure(b, vertex_id) ==
    tesser_vertex_callBack_stored(
        [b EXCEPT !.m_triangulation_failed =
                      (vertex_id = FASTUIDRAW_GLU_NULL_CLIENT_ID),
                  !.m_temp_verts[b.m_temp_vert_count + 1] = vertex_id,
                  !.m_temp_vert_count = @ + 1])

\* tesser::vertex_callBack
tesser_vertex_callBack(b, vertex_id) ==
    tesser_vertex_callBack_stored(
        [b EXCEPT !.m_triangulation_failed =
                      @ \/ vertex_id = FASTUIDRAW_GLU_NULL_CLIENT_ID,
                  !.m_temp_verts[b.m_temp_vert_count + 1] = vertex_id,
                  !.m_temp_vert_count = @ + 1])

\* builder::builder up to the non-zero pass: generate_path on the points
\* pts of the contours, then the constructor of non_zero_tesser
builder_ctor(P, pts, events, indeterminate) ==
    non_zero_tesser_ctor(
        PointHoard_generate_path(
            [m_bounds |-> P.m_bounds,
             m_winding_start |-> P.m_winding_start,
             m_pts |-> <<>>,
             m_map |-> <<>>,
             m_path |-> <<>>,
             m_point_count |-> 0,
             m_tess_vertices |-> <<>>,
             m_hoard |-> <<>>,
             m_temp_verts |-> <<0, 0, 0>>,
             m_temp_vert_count |-> 0,
             m_triangulation_failed |-> FALSE,
             m_current_winding |-> 0,
             m_current_indices |-> NULL,
             m_indices |-> NULL,
             failNZ |-> FALSE,
             failZ |-> FALSE,
             m_failed |-> FALSE,
             stage |-> "start",
             events |-> events,
             pc |-> 0,
             fill |-> <<>>],
            pts),
        indeterminate)

\* builder::builder: failNZ = non_zero_tesser::execute_path(...) returns,
\* and zero_tesser::execute_path(...) starts
builder_non_zero_done(b, indeterminate) ==
    zero_tesser_ctor([b EXCEPT !.failNZ = b.m_triangulation_failed], indeterminate)

\* builder::builder: failZ = zero_tesser::execute_path(...) returns;
\* m_failed = failNZ || failZ
builder_zero_done(b) ==
    [b EXCEPT !.failZ = b.m_triangulation_failed,
              !.m_failed = b.failNZ \/ b.m_triangulation_failed,
              !.stage = "built"]

(***************************************************************************)
(* PainterAttributeData: [attribute_chunks, index_chunks], chunk c of a    *)
(* vector of chunks is chunks[c + 1].                                      *)
(***************************************************************************)
\* PainterAttributeData::attribute_data_chunk / index_data_chunk: a chunk
\* past the end is the empty array
attribute_data_chunk(pd, c) ==
    IF c < Len(pd.attribute_chunks) THEN pd.attribute_chunks[c + 1] ELSE <<>>
index_data_chunk(pd, c) ==
    IF c < Len(pd.index_chunks) THEN pd.index_chunks[c + 1] ELSE <<>>

\* pack_float: the bits of the two flag values 0.0f and 1.0f
pack_float(value) == IF value = 1 THEN 1065353216 ELSE 0

\* AttributeDataFiller::generate_attribute: m_attrib0 = (x, y, 1.0f, 0.0f);
\* x and y stand for the packed bits of the position
generate_attribute(src) ==
    [m_attrib0 |-> <<src.m_pt[1], src.m_pt[2], pack_float(1), pack_float(0)>>]

\* AttributeDataFiller: the filler as make_ready_from_sub_path sets it up
\* from the points of the builder and the output F of fill_indices
AttributeDataFiller(m_points, F) ==
    [m_points |-> m_points,
     m_indices |-> F.indices,
     m_per_fill |-> F.winding_map,
     m_nonzero_winding_indices |-> sub_array(F.indices, 0, F.zero_start),
     m_odd_winding_indices |-> sub_array(F.indices, 0, F.even_non_zero_start),
     m_even_winding_indices |-> sub_array_from(F.indices, F.even_non_zero_start),
     m_zero_winding_indices |-> sub_array_from(F.indices, F.zero_start)]

\* AttributeDataFiller::compute_sizes
AttributeDataFiller_compute_sizes(f) ==
    IF DOMAIN f.m_per_fill = {}
    THEN [number_attributes |-> 0, number_attribute_chunks |-> 0,
          number_index_chunks |-> 0]
    ELSE LET smallest_winding == SetMin(DOMAIN f.m_per_fill)
             largest_winding == SetMax(DOMAIN f.m_per_fill)
         IN [number_attributes |-> Len(f.m_points),
             number_attribute_chunks |-> 1,
             number_index_chunks |->
                1 + t_max(chunk_from_winding_number(largest_winding),
                          chunk_from_winding_number(smallest_winding))]

\* AttributeDataFiller::fill_data: the chunk IDs c of its assignments
\* index_chunks[c] = dst, the four of GRAB_MACRO and one for every winding
\* number other than 0 of m_per_fill
AttributeDataFiller_fill_data_chunks(f) ==
    IF DOMAIN f.m_per_fill = {} THEN {}
    ELSE {odd_even_fill_rule, nonzero_fill_rule,
          complement_odd_even_fill_rule, complement_nonzero_fill_rule}
            \cup {chunk_from_winding_number(w) : w \in DOMAIN f.m_per_fill \ {0}}

\* fill_data assigns to an element of index_chunks past the
\* number_index_chunks elements compute_sizes asked for: c_array's
\* operator[] does not check the index in a build without asserts, the
\* behaviour is undefined
AttributeDataFiller_fill_data_out_of_range(f) ==
    \E c \in AttributeDataFiller_fill_data_chunks(f) :
        c >= AttributeDataFiller_compute_sizes(f).number_index_chunks

\* PainterAttributeData::set_data(filler) with AttributeDataFiller::fill_data:
\* the arrays have the sizes compute_sizes asked for; fill_data returns at
\* once when m_per_fill is empty; a chunk fill_data does not assign stays
\* empty, and an assignment out of range leaves the array as it is.
AttributeDataFiller_set_data(f) ==
    LET sz == AttributeDataFiller_compute_sizes(f)
        fill(c) ==
            IF c = odd_even_fill_rule THEN f.m_odd_winding_indices
            ELSE IF c = nonzero_fill_rule THEN f.m_nonzero_winding_indices
            ELSE IF c = complement_odd_even_fill_rule THEN f.m_even_winding_indices
            ELSE IF c = complement_nonzero_fill_rule THEN f.m_zero_winding_indices
            ELSE IF \E w \in DOMAIN f.m_per_fill :
                       w # 0 /\ chunk_from_winding_number(w) = c
            THEN f.m_per_fill[CHOOSE w \in DOMAIN f.m_per_fill :
                                 w # 0 /\ chunk_from_winding_number(w) = c]
            ELSE <<>>
    IN [attribute_chunks |->
            vector([k \in 1..sz.number_attribute_chunks |->
                vector([i \in 1..sz.number_attributes |->
                           generate_attribute(f.m_points[i])])]),
        index_chunks |-> vector([k \in 1..sz.number_index_chunks |-> fill(k - 1)])]

\* AttributeDataFiller::fill_winding_data
AttributeDataFiller_fill_winding_data(f) ==
    vector([v \in 1..Len(f.m_points) |-> extract_from_set(f.m_points[v].m_winding)])

\* AttributeDataMerger::fill_winding_data
AttributeDataMerger_fill_winding_data(a, b) == a \o b

AttributeDataMerger_set_data_without_offset(m_a, m_b) ==
    LET a_attribs == attribute_data_chunk(m_a, 0)
        b_attribs == attribute_data_chunk(m_b, 0)
        number_index_chunks == t_max(Len(m_a.index_chunks), Len(m_b.index_chunks))
        merged(chunk) == index_data_chunk(m_a, chunk) \o index_data_chunk(m_b, chunk)
    IN [attribute_chunks |-> << a_attribs \o b_attribs >>,
        index_chunks |-> vector([k \in 1..number_index_chunks |-> merged(k - 1)])]

AttributeDataMerger_set_data_offset_by_merged_size(m_a, m_b) ==
    LET a_attribs == attribute_data_chunk(m_a, 0)
        b_attribs == attribute_data_chunk(m_b, 0)
        number_index_chunks == t_max(Len(m_a.index_chunks), Len(m_b.index_chunks))
        merged(chunk) ==
            LET src_a == index_data_chunk(m_a, chunk)
                src_b == index_data_chunk(m_b, chunk)
            IN src_a \o [i \in 1..Len(src_b) |->
                            src_b[i] + Len(a_attribs) + Len(b_attribs)]
    IN [attribute_chunks |-> << a_attribs \o b_attribs >>,
        index_chunks |-> vector([k \in 1..number_index_chunks |-> merged(k - 1)])]

\* PainterAttributeData::set_data(merger) with AttributeDataMerger's
\* compute_sizes and fill_data
AttributeDataMerger_set_data(m_a, m_b) ==
    LET a_attribs == attribute_data_chunk(m_a, 0)
        b_attribs == attribute_data_chunk(m_b, 0)
        number_index_chunks == t_max(Len(m_a.index_chunks), Len(m_b.index_chunks))
        merged(chunk) ==
            LET src_a == index_data_chunk(m_a, chunk)
                src_b == index_data_chunk(m_b, chunk)
            IN src_a \o [i \in 1..Len(src_b) |-> src_b[i] + Len(a_attribs)]
    IN [attribute_chunks |-> << a_attribs \o b_attribs >>,
        index_chunks |-> vector([k \in 1..number_index_chunks |-> merged(k - 1)])]

(***************************************************************************)
(* SubsetPrivate.  A node is the record                                    *)
(*   [m_ID, m_bounds, m_painter_data, m_winding_numbers,                   *)
(*    m_windings_per_pt, m_sizes_ready, m_num_attributes,                  *)
(*    m_largest_index_block, m_sub_path, m_children]                       *)
(* and the vector m_subsets of FilledPathPrivate is the sequence of all    *)
(* nodes (node with ID i at position i + 1); m_root is the node with ID 0. *)
(* m_num_attributes and m_largest_index_block are not initialised by the   *)
(* constructor; the code reads them only when m_sizes_ready, the model     *)
(* holds 0 in them until then.                                             *)
(***************************************************************************)
Node(tree, id) == tree[id + 1]

RECURSIVE SubsetPrivate_ctor(_, _, _)
SubsetPrivate_ctor_when_both_fewer(Q, max_recursion, out_values) ==
    LET ID == Len(out_values)
        self == [m_ID |-> ID,
                 m_bounds |-> Q.m_bounds,
                 m_painter_data |-> NULL,
                 m_winding_numbers |-> <<>>,
                 m_windings_per_pt |-> <<>>,
                 m_sizes_ready |-> FALSE,
                 m_num_attributes |-> 0,
                 m_largest_index_block |-> 0,
                 m_sub_path |-> Ptr(Q),
                 m_children |-> <<NULL, NULL>>]
        pushed == Append(out_values, self)
    IN IF max_recursion > 0 /\ Q.m_total_points > points_per_subset
       THEN LET C == SubPath_split(Q)
            IN IF C[1].m_total_points < Q.m_total_points
                  /\ C[2].m_total_points < Q.m_total_points
               THEN LET out0 == SubsetPrivate_ctor(C[1], max_recursion - 1, pushed)
                        out1 == SubsetPrivate_ctor(C[2], max_recursion - 1, out0)
                    IN [out1 EXCEPT ![ID + 1].m_children = <<Ptr(ID + 1), Ptr(Len(out0))>>,
                                    ![ID + 1].m_sub_path = NULL]
               ELSE pushed
       ELSE pushed

\* SubsetPrivate::SubsetPrivate(Q, max_recursion, out_values): the value of
\* out_values after the constructor returns
SubsetPrivate_ctor(Q, max_recursion, out_values) ==
    LET ID == Len(out_values)
        self == [m_ID |-> ID,
                 m_bounds |-> Q.m_bounds,
                 m_painter_data |-> NULL,
                 m_winding_numbers |-> <<>>,
                 m_windings_per_pt |-> <<>>,
                 m_sizes_ready |-> FALSE,
                 m_num_attributes |-> 0,
                 m_largest_index_block |-> 0,
                 m_sub_path |-> Ptr(Q),
                 m_children |-> <<NULL, NULL>>]
        pushed == Append(out_values, self)
    IN IF max_recursion > 0 /\ Q.m_total_points > points_per_subset
       THEN LET C == SubPath_split(Q)
            IN IF C[1].m_total_points < Q.m_total_points
                  \/ C[2].m_total_points < Q.m_total_points
               THEN LET out0 == SubsetPrivate_ctor(C[1], max_recursion - 1, pushed)
                        out1 == SubsetPrivate_ctor(C[2], max_recursion - 1, out0)
                    IN [out1 EXCEPT ![ID + 1].m_children = <<Ptr(ID + 1), Ptr(Len(out0))>>,
                                    ![ID + 1].m_sub_path = NULL]
               ELSE pushed
       ELSE pushed

\* FilledPathPrivate::FilledPathPrivate(P): m_subsets after construction
FilledPathPrivate(q) == SubsetPrivate_ctor(q, recursion_depth, <<>>)

\* A call in progress is the record S = [tree, dst, log, diag]:
\*   tree : m_subsets,
\*   dst  : the IDs written to the caller's array so far (dst[0..current)),
\*   log  : the tessellations (<<"tess", ID>>) and merges (<<"merge", ID>>)
\*          run so far by the call, in order,
\*   diag : an assert of the code would have fired.

\* SubsetPrivate::make_ready_from_sub_path up to the deletion of
\* m_sub_path: the node n with the sizes, the painter data and the winding
\* data taken from the filler
SubsetPrivate_filled(n, filler) ==
    [n EXCEPT !.m_sizes_ready = TRUE,
              !.m_largest_index_block =
                  t_max(t_max(Len(filler.m_nonzero_winding_indices),
                              Len(filler.m_zero_winding_indices)),
                        t_max(Len(filler.m_odd_winding_indices),
                              Len(filler.m_even_winding_indices))),
              !.m_num_attributes = Len(filler.m_points),
              !.m_winding_numbers = SortedSeq(DOMAIN filler.m_per_fill),
              !.m_painter_data = Ptr(AttributeDataFiller_set_data(filler)),
              !.m_windings_per_pt = AttributeDataFiller_fill_winding_data(filler)]

\* builder B(*m_sub_path, filler.m_points); B.fill_indices(...)
SubPath_filler(P) ==
    LET B == builder(P)
    IN AttributeDataFiller(B.m_points, fill_indices(B.m_hoard))

make_ready_from_sub_path_keeping_sub_path(S, id) ==
    [S EXCEPT
       !.tree[id + 1] = SubsetPrivate_filled(@, SubPath_filler(Deref(@.m_sub_path))),
       !.log = Append(@, <<"tess", id>>)]

\* SubsetPrivate::make_ready_from_sub_path
make_ready_from_sub_path(S, id) ==
    [S EXCEPT
       !.tree[id + 1] =
           [SubsetPrivate_filled(@, SubPath_filler(Deref(@.m_sub_path)))
               EXCEPT !.m_sub_path = NULL],
       !.log = Append(@, <<"tess", id>>)]

RECURSIVE make_ready(_, _)
\* SubsetPrivate::make_ready_from_children after the two make_ready calls
\* on the children: S is the call state they leave
make_ready_from_children_merge(S, id) ==
    LET n == Node(S.tree, id)
        c0 == Node(S.tree, Deref(n.m_children[1]))
        c1 == Node(S.tree, Deref(n.m_children[2]))
        wnd == Range(c0.m_winding_numbers) \cup Range(c1.m_winding_numbers)
        sized == IF ~n.m_sizes_ready
                 THEN [n EXCEPT !.m_sizes_ready = TRUE,
                                !.m_num_attributes =
                                    c0.m_num_attributes + c1.m_num_attributes,
                                !.m_largest_index_block =
                                    c0.m_largest_index_block + c1.m_largest_index_block]
                 ELSE n
    IN [S EXCEPT
          !.tree[id + 1] =
              [sized EXCEPT
                 !.m_painter_data =
                     Ptr(AttributeDataMerger_set_data(Deref(c0.m_painter_data),
                                                      Deref(c1.m_painter_data))),
                 !.m_windings_per_pt =
                     AttributeDataMerger_fill_winding_data(c0.m_windings_per_pt,
                                                           c1.m_windings_per_pt),
                 !.m_winding_numbers = SortedSeq(wnd)],
          !.log = Append(@, <<"merge", id>>)]

\* SubsetPrivate::make_ready_from_children
make_ready_from_children(S, id) ==
    make_ready_from_children_merge(
        make_ready(make_ready(S, Deref(Node(S.tree, id).m_children[1])),
                   Deref(Node(S.tree, id).m_children[2])),
        id)

make_ready_unguarded(S, id) ==
    IF Node(S.tree, id).m_sub_path # NULL
    THEN make_ready_from_sub_path(S, id)
    ELSE IF Node(S.tree, id).m_children[1] # NULL
    THEN make_ready_from_children(S, id)
    ELSE [S EXCEPT !.log = Append(@, <<"tess", id>>)]

\* SubsetPrivate::make_ready
make_ready(S, id) ==
    IF Node(S.tree, id).m_painter_data = NULL
    THEN IF Node(S.tree, id).m_sub_path # NULL
         THEN make_ready_from_sub_path(S, id)
         ELSE make_ready_from_children(S, id)
    ELSE S

(***************************************************************************)
(* Clipping.  A clip equation is a vec3 <<a, b, c>>; the point (x, y) is   *)
(* inside when a*x + b*y + c >= 0.  The model's clip equations have        *)
(* axis-aligned unit normals, so that a clipped rectangle is a rectangle.  *)
(***************************************************************************)
\* vec3 * float3x3 (row vector times matrix), select_subsets line 2487
vec3_times_matrix(v, M) ==
    vector([j \in 1..3 |-> v[1] * M[1][j] + v[2] * M[2][j] + v[3] * M[3][j]])

clip_value(eq, p) == eq[1] * p[1] + eq[2] * p[2] + eq[3]

\* the rectangle with corners pmin, pmax as a polygon (BoundingBox::
\* inflated_polygon order)
rect_polygon(pmin, pmax) ==
    << <<pmin[1], pmin[2]>>, <<pmin[1], pmax[2]>>,
       <<pmax[1], pmax[2]>>, <<pmax[1], pmin[2]>> >>

\* detail::clip_against_planes on the rectangle pts: [unclipped,
\* clipped_rect]; clipped_rect is the polygon left, empty when every point
\* is outside one of the planes
RECURSIVE clip_against_planes(_, _)
clip_against_planes(eqs, pts) ==
    IF eqs = <<>> \/ pts = <<>>
    THEN [unclipped |-> pts # <<>>, clipped_rect |-> pts]
    ELSE LET eq == Head(eqs)
             vals == {clip_value(eq, pts[i]) : i \in 1..Len(pts)}
             pmin == pts[1]
             pmax == pts[3]
             cut ==
                 IF eq[1] > 0 THEN rect_polygon(<<-eq[3], pmin[2]>>, pmax)
                 ELSE IF eq[1] < 0 THEN rect_polygon(pmin, <<eq[3], pmax[2]>>)
                 ELSE IF eq[2] > 0 THEN rect_polygon(<<pmin[1], -eq[3]>>, pmax)
                 ELSE rect_polygon(pmin, <<pmax[1], eq[3]>>)
             one == IF \A v \in vals : v < 0
                    THEN [unclipped |-> FALSE, clipped_rect |-> <<>>]
                    ELSE IF \A v \in vals : v >= 0
                    THEN [unclipped |-> TRUE, clipped_rect |-> pts]
                    ELSE [unclipped |-> FALSE, clipped_rect |-> cut]
             rest == clip_against_planes(Tail(eqs), one.clipped_rect)
         IN [unclipped |-> one.unclipped /\ rest.unclipped,
             clipped_rect |-> rest.clipped_rect]

(***************************************************************************)
(* Selection.                                                              *)
(***************************************************************************)
RECURSIVE select_subsets_all_unculled(_, _, _, _)
select_subsets_all_unculled_sizes_of_first_child(S, id) ==
    LET n == Node(S.tree, id)
        c0 == Node(S.tree, Deref(n.m_children[1]))
    IN IF ~n.m_sizes_ready
       THEN [S EXCEPT
               !.tree[id + 1].m_sizes_ready = TRUE,
               !.tree[id + 1].m_num_attributes = c0.m_num_attributes,
               !.tree[id + 1].m_largest_index_block = c0.m_largest_index_block]
       ELSE S

\* the children branch of select_subsets_all_unculled after the two
\* recursive calls: S is the call state they leave
select_subsets_all_unculled_sizes(S, id) ==
    LET n == Node(S.tree, id)
        c0 == Node(S.tree, Deref(n.m_children[1]))
        c1 == Node(S.tree, Deref(n.m_children[2]))
    IN IF ~n.m_sizes_ready
       THEN [S EXCEPT
               !.tree[id + 1].m_sizes_ready = TRUE,
               !.tree[id + 1].m_num_attributes =
                   c0.m_num_attributes + c1.m_num_attributes,
               !.tree[id + 1].m_largest_index_block =
                   c0.m_largest_index_block + c1.m_largest_index_block]
       ELSE S

select_subsets_all_unculled_write_ignoring_indices(S, id, max_attribute_cnt, max_index_cnt) ==
    LET n == Node(S.tree, id)
    IN IF n.m_sizes_ready /\ n.m_num_attributes <= max_attribute_cnt
       THEN [S EXCEPT !.dst = Append(@, n.m_ID)]
       ELSE IF n.m_children[1] # NULL
       THEN select_subsets_all_unculled_sizes(
                select_subsets_all_unculled(
                    select_subsets_all_unculled(S, Deref(n.m_children[1]),
                                                max_attribute_cnt, max_index_cnt),
                    Deref(n.m_children[2]), max_attribute_cnt, max_index_cnt),
                id)
       ELSE [S EXCEPT !.diag = TRUE]

\* SubsetPrivate::select_subsets_all_unculled after the first if statement
\* (S is the call state once a leaf without sizes has been made ready)
select_subsets_all_unculled_write(S, id, max_attribute_cnt, max_index_cnt) ==
    LET n == Node(S.tree, id)
    IN IF n.m_sizes_ready /\ n.m_num_attributes <= max_attribute_cnt
                          /\ n.m_largest_index_block <= max_index_cnt
       THEN [S EXCEPT !.dst = Append(@, n.m_ID)]
       ELSE IF n.m_children[1] # NULL
       THEN select_subsets_all_unculled_sizes(
                select_subsets_all_unculled(
                    select_subsets_all_unculled(S, Deref(n.m_children[1]),
                                                max_attribute_cnt, max_index_cnt),
                    Deref(n.m_children[2]), max_attribute_cnt, max_index_cnt),
                id)
       ELSE \* assert(!"Childless FilledPath::Subset has too many attributes
            \* or indices"): nothing is written
            [S EXCEPT !.diag = TRUE]

\* SubsetPrivate::select_subsets_all_unculled
select_subsets_all_unculled(S, id, max_attribute_cnt, max_index_cnt) ==
    select_subsets_all_unculled_write(
        IF ~Node(S.tree, id).m_sizes_ready /\ Node(S.tree, id).m_children[1] = NULL
        THEN make_ready_from_sub_path(S, id)
        ELSE S,
        id, max_attribute_cnt, max_index_cnt)

RECURSIVE select_subsets_implement(_, _, _, _, _)
select_subsets_implement_without_cull(S, id, adjusted_clip_eqs, max_attribute_cnt, max_index_cnt) ==
    LET n == Node(S.tree, id)
        clip == clip_against_planes(adjusted_clip_eqs, inflated_polygon(n.m_bounds))
    IN IF clip.unclipped \/ n.m_children[1] = NULL
       THEN select_subsets_all_unculled(S, id, max_attribute_cnt, max_index_cnt)
       ELSE select_subsets_implement(
                select_subsets_implement(S, Deref(n.m_children[1]), adjusted_clip_eqs,
                                         max_attribute_cnt, max_index_cnt),
                Deref(n.m_children[2]), adjusted_clip_eqs,
                max_attribute_cnt, max_index_cnt)

\* SubsetPrivate::select_subsets_implement
select_subsets_implement(S, id, adjusted_clip_eqs, max_attribute_cnt, max_index_cnt) ==
    LET n == Node(S.tree, id)
        clip == clip_against_planes(adjusted_clip_eqs, inflated_polygon(n.m_bounds))
    IN IF clip.clipped_rect = <<>>
       THEN S
       ELSE IF clip.unclipped \/ n.m_children[1] = NULL
       THEN select_subsets_all_unculled(S, id, max_attribute_cnt, max_index_cnt)
       ELSE select_subsets_implement(
                select_subsets_implement(S, Deref(n.m_children[1]), adjusted_clip_eqs,
                                         max_attribute_cnt, max_index_cnt),
                Deref(n.m_children[2]), adjusted_clip_eqs,
                max_attribute_cnt, max_index_cnt)

\* the clip equations in local coordinates (scratch.m_adjusted_clip_eqs)
adjusted_clip_eqs(clip_equations, clip_matrix_local) ==
    vector([i \in 1..Len(clip_equations) |->
               vec3_times_matrix(clip_equations[i], clip_matrix_local)])

\* SubsetPrivate::select_subsets on the root, as called by
\* FilledPath::select_subsets: the call state when it returns
\* (return_value is Len(dst))
select_subsets(tree, clip_equations, clip_matrix_local, max_attribute_cnt, max_index_cnt) ==
    select_subsets_implement(
        [tree |-> tree, dst |-> <<>>, log |-> <<>>, diag |-> FALSE],
        0, adjusted_clip_eqs(clip_equations, clip_matrix_local),
        max_attribute_cnt, max_index_cnt)

\* FilledPath::subset(I): p->make_ready()
subset(tree, I) ==
    make_ready([tree |-> tree, dst |-> <<>>, log |-> <<>>, diag |-> FALSE], I)

(***************************************************************************)
(* DataWriter.  DataWriterPrivate is the record                            *)
(*   [m_subset_selector, m_attribute_chunks, m_index_chunks,               *)
(*    m_complement_winding_rule, m_winding_rule];                          *)
(* a per_attrib_chunk is [m_attribs, m_per_pt_winding_set], a              *)
(* per_index_chunk is [m_indices, m_attrib_chunk].                         *)
(***************************************************************************)
DataWriterPrivate ==
    [m_subset_selector |-> <<>>,
     m_attribute_chunks |-> <<>>,
     m_index_chunks |-> <<>>,
     m_complement_winding_rule |-> WindingSet_empty,
     m_winding_rule |-> WindingSet_empty]

per_attrib_chunk(sd) ==
    [m_attribs |-> attribute_data_chunk(Deref(sd.m_painter_data), 0),
     m_per_pt_winding_set |-> sd.m_windings_per_pt]

per_index_chunk(indices, attrib_chunk) ==
    [m_indices |-> indices, m_attrib_chunk |-> attrib_chunk]

\* std::vector::resize(n) on the selector: old entries are kept, new ones
\* are zero
resize(v, n) == vector([i \in 1..n |-> IF i <= Len(v) THEN v[i] ELSE 0])

\* what a read of m_ptr[0] / m_ptr[size - 1] of an empty c_array may yield
UBValues == {-3, 2}

RECURSIVE make_ready_all(_, _)
\* the subset(I) calls of compute_writer on the selected IDs, in order
make_ready_all(S, ids) ==
    IF ids = <<>> THEN S ELSE make_ready_all(make_ready(S, Head(ids)), Tail(ids))

\* the (min_winding, max_winding) pairs lines 3047-3057 can compute:
\* front() and back() of an empty winding_numbers() array are reads outside
\* the array
winding_ranges(tree, ids) ==
    LET wn(i) == Node(tree, ids[i]).m_winding_numbers
        fronts == [i \in 1..Len(ids) |->
                     IF wn(i) # <<>> THEN {wn(i)[1]} ELSE UBValues]
        backs == [i \in 1..Len(ids) |->
                     IF wn(i) # <<>> THEN {wn(i)[Len(wn(i))]} ELSE UBValues]
        mins == {SetMin(Range(f)) : f \in {g \in [1..Len(ids) -> UNION Range(fronts)] :
                                             \A i \in 1..Len(ids) : g[i] \in fronts[i]}}
        maxs == {SetMax(Range(f)) : f \in {g \in [1..Len(ids) -> UNION Range(backs)] :
                                             \A i \in 1..Len(ids) : g[i] \in backs[i]}}
    IN mins \X maxs

RECURSIVE fill_chunks(_, _, _)
\* the loop of lines 3064-3098 over the selected subsets
fill_chunks(W, tree, ids) ==
    IF ids = <<>> THEN W
    ELSE LET sd == Node(tree, Head(ids))
             taken == SelectSeq(sd.m_winding_numbers,
                                LAMBDA w : WindingSet_has(W.m_winding_rule, w))
             attrib_chunk == Len(W.m_attribute_chunks)
             W1 == IF taken = <<>> THEN W
                   ELSE [W EXCEPT
                           !.m_attribute_chunks = Append(@, per_attrib_chunk(sd)),
                           !.m_index_chunks = @ \o
                              [k \in 1..Len(taken) |->
                                 per_index_chunk(
                                    index_data_chunk(Deref(sd.m_painter_data),
                                                     chunk_from_winding_number(taken[k])),
                                    attrib_chunk)]]
         IN fill_chunks(W1, tree, Tail(ids))

\* FilledPath::compute_writer (CustomFillRuleBase overload); fill_rule is
\* the set of integers on which the predicate is true.  The set of possible
\* results [tree, writer, dst, log, diag, evaluated, crashed]: evaluated is
\* the set of integers the predicate was called on.

\* lines 3047-3099: W0 is the writer with the selector filled and the
\* chunks cleared, dst the selected IDs (at least one), R the call state
\* once subset(I) has been called on each of them
compute_writer_chunks(W0, fill_rule, dst, R) ==
    {IF mm[1] > mm[2] + 1
     THEN \* m_bits.resize() with a negative length
          [tree |-> R.tree, writer |-> W0, dst |-> dst, log |-> R.log,
           diag |-> R.diag, evaluated |-> {}, crashed |-> TRUE]
     ELSE [tree |-> R.tree,
           writer |-> fill_chunks(
               [W0 EXCEPT
                  !.m_winding_rule =
                      extract_from_fill_fule(mm[1], mm[2], fill_rule, FALSE),
                  !.m_complement_winding_rule =
                      extract_from_fill_fule(mm[1], mm[2], fill_rule, TRUE)],
               R.tree, dst),
           dst |-> dst, log |-> R.log, diag |-> R.diag,
           evaluated |-> mm[1]..mm[2], crashed |-> FALSE]
     : mm \in winding_ranges(R.tree, dst)}
    \cup \* the read outside the array faults
         (IF \E i \in 1..Len(dst) : Node(R.tree, dst[i]).m_winding_numbers = <<>>
          THEN {[tree |-> R.tree, writer |-> W0, dst |-> dst, log |-> R.log,
                 diag |-> R.diag, evaluated |-> {}, crashed |-> TRUE]}
          ELSE {})

\* lines 3030-3046: Sel is the call state select_subsets returns
compute_writer_selected(W, fill_rule, Sel) ==
    IF Len(Sel.dst) = 0
    THEN {[tree |-> Sel.tree,
           writer |-> [W EXCEPT
                         !.m_attribute_chunks = <<>>,
                         !.m_index_chunks = <<>>,
                         !.m_complement_winding_rule = WindingSet_empty,
                         !.m_subset_selector = resize(@, Len(Sel.tree))],
           dst |-> Sel.dst, log |-> Sel.log,
           diag |-> Sel.diag, evaluated |-> {}, crashed |-> FALSE]}
    ELSE compute_writer_chunks(
             [W EXCEPT
                !.m_attribute_chunks = <<>>,
                !.m_index_chunks = <<>>,
                !.m_complement_winding_rule = WindingSet_empty,
                !.m_subset_selector =
                    vector([i \in 1..Len(Sel.tree) |->
                               IF i <= Len(Sel.dst) THEN Sel.dst[i]
                               ELSE resize(@, Len(Sel.tree))[i]])],
             fill_rule, Sel.dst, make_ready_all(Sel, Sel.dst))

compute_writer(tree, W, fill_rule, clip_equations, clip_matrix_local, max_attribute_cnt, max_index_cnt) ==
    compute_writer_selected(W, fill_rule,
        select_subsets(tree, clip_equations, clip_matrix_local,
                       max_attribute_cnt, max_index_cnt))

\* the winding numbers a fill rule is asked about
WindingUniverse == -4..4

\* the function CustomFillRuleFunction wraps, as the set of integers on
\* which it is true
PredicateSet(F(_)) == {w \in WindingUniverse : F(w)}

fill_rule_fcn_default_last_case(fill_rule) ==
    IF fill_rule = nonzero_fill_rule
    THEN PredicateSet(fcn_non_zero_fill_rule)
    ELSE IF fill_rule = complement_nonzero_fill_rule
    THEN PredicateSet(fcn_complelemt_non_zero_fill_rule)
    ELSE IF fill_rule = odd_even_fill_rule
    THEN PredicateSet(fcn_odd_even_fill_rule)
    ELSE PredicateSet(fcn_complement_odd_even_fill_rule)

\* the switch of FilledPath::compute_writer (fill_rule_t overload): fcn
fill_rule_fcn(fill_rule) ==
    IF fill_rule = nonzero_fill_rule
    THEN PredicateSet(fcn_non_zero_fill_rule)
    ELSE IF fill_rule = complement_nonzero_fill_rule
    THEN PredicateSet(fcn_complelemt_non_zero_fill_rule)
    ELSE IF fill_rule = odd_even_fill_rule
    THEN PredicateSet(fcn_odd_even_fill_rule)
    ELSE IF fill_rule = complement_odd_even_fill_rule
    THEN PredicateSet(fcn_complement_odd_even_fill_rule)
    ELSE PredicateSet(fcn_non_zero_fill_rule)

\* FilledPath::compute_writer (fill_rule_t overload): the possible results,
\* as for the CustomFillRuleBase overload; the default branch of the switch
\* holds an assert
compute_writer_fill_rule_t(tree, W, fill_rule, clip_equations, clip_matrix_local, max_attribute_cnt, max_index_cnt) ==
    {[R EXCEPT !.diag = @ \/ fill_rule \notin {nonzero_fill_rule,
                                                complement_nonzero_fill_rule,
                                                odd_even_fill_rule,
                                                complement_odd_even_fill_rule}] :
        R \in compute_writer(tree, W, fill_rule_fcn(fill_rule), clip_equations,
                             clip_matrix_local, max_attribute_cnt, max_index_cnt)}

\* FilledPath::DataWriter::write_attributes: the contents of dst
write_attributes(W, attribute_chunk) ==
    LET src == W.m_attribute_chunks[attribute_chunk + 1].m_attribs
        w_src == W.m_attribute_chunks[attribute_chunk + 1].m_per_pt_winding_set
    IN [i \in 1..Len(src) |->
          LET outside == have_common_bit(W.m_complement_winding_rule, w_src[i])
              value == IF outside THEN 0 ELSE 1
          IN [m_attrib0 |-> <<src[i].m_attrib0[1], src[i].m_attrib0[2],
                              pack_float(value)>>]]

(***************************************************************************)
(* Inputs.                                                                 *)
(***************************************************************************)
\* the bounding box of the input path
RootBox == BoundingBox(<<0, 0>>, <<8, 8>>)

\* what the tessellator reports for a leaf whose PointHoard holds
\* Len(ws) + 2 contour points: a strip of triangles, triangle k with the
\* vertices k-1, k, k+1 and winding ws[k].  Consecutive triangles share an
\* edge, so the midpoint i01 of triangle k + 1 is the midpoint i12 of
\* triangle k; every other midpoint and centre is a new point, numbered in
\* the order of the fetches.
Tess(ws) ==
    LET base == Len(ws) + 2
    IN [npts |-> IF ws = <<>> THEN base ELSE 4 * Len(ws) + 3,
        tris |-> [k \in 1..Len(ws) |->
                    [w |-> ws[k],
                     v |-> <<k - 1, k, k + 1>>,
                     m |-> IF k = 1
                           THEN <<base, base + 1, base + 2, base + 3>>
                           ELSE <<base + 3 * k - 4, base + 3 * k - 2,
                                  base + 3 * k - 1, base + 3 * k>>]]]

\* one triangle of winding 1; two triangles of windings -1 and 2
TessTree == {Tess(<<1>>), Tess(<<-1, 2>>)}

\* no triangle at all (failed or degenerate tessellation; the PointHoard
\* still holds the contour points); a strip of three triangles of windings
\* 1 and -2 (non-zero pass) and 0 (zero pass)
TessWriter == {Tess(<<>>), Tess(<<1, -2, 0>>)}

\* number of points of a SubPath that becomes a leaf
LeafPoints == 40

RECURSIVE InputSubPaths(_, _, _)
\* the [pts, ws, contours] descriptions that give a subset tree with
\* exactly n leaves, every split along the free axis a where the code
\* leaves the choice to the point counts
InputSubPaths(n, T, a) ==
    IF n = 1
    THEN {[pts |-> LeafPoints, ws |-> 0,
           contours |-> [axis |-> a, kids |-> <<>>, tess |-> t]] : t \in T}
    ELSE UNION {
           {[pts |-> k0.pts + k1.pts, ws |-> 0,
             contours |-> [axis |-> a, kids |-> <<k0, k1>>,
                           tess |-> Tess(<<>>)]] :
               k0 \in InputSubPaths(i, T, a), k1 \in InputSubPaths(n - i, T, a)}
           : i \in 1..(n - 1)}

\* SubPath::SubPath(const TessellatedPath &P): the root sub-paths with at
\* most maxleaves leaves and free axis in axes
InputPaths(maxleaves, T, axes) ==
    {[m_total_points |-> d.pts, m_bounds |-> RootBox, m_winding_start |-> 0,
      m_contours |-> d.contours] :
        d \in InputSubPaths(1, T, 0)
               \cup UNION {InputSubPaths(n, T, a) : n \in 2..maxleaves, a \in axes}}

\* the bounding box of the input paths of the construction runs: a power
\* of two, so that every midpoint down to recursion_depth is exact
CtorRootBox == BoundingBox(<<0, 0>>, <<4096, 4096>>)

\* depth down to which the construction inputs say what split() leaves
MaxCtorDepth == 12

\* largest subset ID asked for after a construction run
MaxCtorSubset == 2

\* a sub-path description of n points that split() is never asked about
\* (n <= points_per_subset), and one of n points that split() cuts along
\* the free axis a into k0 and k1
CtorLeaf(n) ==
    [pts |-> n, ws |-> 0,
     contours |-> [axis |-> 0, kids |-> <<>>, tess |-> Tess(<<1>>)]]
CtorNode(n, a, k0, k1) ==
    [pts |-> n, ws |-> 0,
     contours |-> [axis |-> a, kids |-> <<k0, k1>>, tess |-> Tess(<<1>>)]]

\* a sub-path of n > points_per_subset points below the described depth:
\* split() would leave no point on one side and 64 on the other
CtorTerminal(n) == CtorNode(n, 0, CtorLeaf(0), CtorLeaf(points_per_subset))

RECURSIVE CtorChains(_)
\* descriptions of a sub-path of points_per_subset + 1 points at depth d:
\*  - a single cluster: split() leaves all its points on one side and none
\*    on the other, and the side with the points is again such a sub-path;
\*  - split() leaves on each side no fewer points than the sub-path has
\*    (the cut adds points);
\*  - split() leaves 64 points on one side and 1 on the other.
CtorChains(d) ==
    LET n == points_per_subset + 1
    IN IF d > MaxCtorDepth THEN {CtorTerminal(n)}
       ELSE {IF d % 2 = 0 THEN CtorNode(n, d % 2, CtorLeaf(0), c)
                          ELSE CtorNode(n, d % 2, c, CtorLeaf(0)) :
                c \in CtorChains(d + 1)}
            \cup {CtorNode(n, d % 2, CtorTerminal(n), CtorTerminal(n + 1)),
                  CtorNode(n, d % 2, CtorLeaf(points_per_subset), CtorLeaf(1))}

\* descriptions of a sub-path whose first half is a sub-path that split()
\* does not reduce and whose second half is one of CtorChains
CtorMixed ==
    {CtorNode(2 * n, 0, CtorNode(n, 1, CtorTerminal(n), CtorTerminal(n + 1)), c) :
        c \in CtorChains(1), n \in {points_per_subset + 1}}

\* descriptions of a sub-path both halves of which are split again
CtorBalanced ==
    {CtorNode(2 * n, a, CtorNode(n, b, CtorLeaf(n - 1), CtorLeaf(1)),
                        CtorNode(n, b, CtorLeaf(1), CtorLeaf(n - 1))) :
        a \in {0, 1}, b \in {0, 1}, n \in {points_per_subset + 1}}

\* SubPath::SubPath(const TessellatedPath &P): the root sub-paths of the
\* construction runs
CtorPaths ==
    {[m_total_points |-> d.pts, m_bounds |-> CtorRootBox, m_winding_start |-> 0,
      m_contours |-> d.contours] :
        d \in CtorChains(0) \cup CtorBalanced \cup CtorMixed
               \cup {CtorLeaf(0), CtorLeaf(points_per_subset)}}

\* the bounding box of the input path of the tessellation runs; its first
\* half is the box (0,0)-(32,32) of the leaf that is baked
TessRootBox == BoundingBox(<<0, 0>>, <<64, 32>>)

\* the ID of that leaf
TessLeaf == 1

\* the points of the contours of the leaf, in the order generate_path
\* fetches them; the sixth coincides with the second, the last is the max
\* corner of the bounds of the leaf
TessPositions ==
    << <<0, 0>>, <<12, 0>>, <<0, 12>>, <<12, 12>>, <<24, 0>>, <<12, 0>>,
       <<32, 32>> >>

\* most polygons the tessellator reports in the non-zero pass
MaxPolygons == 2

\* the vertex IDs the tessellator hands over between two begin callbacks:
\* two triangles with a common edge; a triangle with a vertex it could not
\* produce, then a triangle; three points on a line, a vertex twice, then
\* two more vertices
TessVertexLists ==
    << <<0, 1, 2, 1, 3, 2>>,
       <<0, FASTUIDRAW_GLU_NULL_CLIENT_ID, 2, 1, 3, 2>>,
       <<0, 1, 4, 0, 1, 1, 0, 1>> >>

\* a begin callback with winding_number followed by the vertex callbacks
TessPolygon(winding_number, vs) ==
    << <<"begin", winding_number>> >> \o [k \in 1..Len(vs) |-> <<"vertex", vs[k]>>]

\* the polygons of the non-zero pass (winding numbers 1 and 2) and of the
\* zero pass (winding number -1)
NonZeroPolygons ==
    {TessPolygon(1, TessVertexLists[1]), TessPolygon(2, TessVertexLists[1]),
     TessPolygon(2, TessVertexLists[2]), TessPolygon(1, TessVertexLists[3])}
ZeroPolygons ==
    {TessPolygon(-1, TessVertexLists[k]) : k \in 1..Len(TessVertexLists)}

\* the callback sequences of the zero pass: none, one polygon, or a polygon
\* that ends in the middle of a group followed by another
ZeroStreams ==
    {<<>>} \cup ZeroPolygons
       \cup {TessPolygon(-1, TessVertexLists[3]) \o TessPolygon(-1, TessVertexLists[1])}

RECURSIVE TessStreams(_, _)
\* the callback sequences of at most n polygons
TessStreams(polygons, n) ==
    IF n = 0 THEN {<<>>}
    ELSE {<<>>} \cup {p \o t : p \in polygons, t \in TessStreams(polygons, n - 1)}

\* the values m_temp_vert_count may hold before the first begin callback
IndeterminateCounts == {0, 2}

\* the root sub-paths of the tessellation runs: the first half is the leaf
\* with the points TessPositions and a winding_start of 0 or -1
TessPaths ==
    {[m_total_points |-> points_per_subset + 1, m_bounds |-> TessRootBox,
      m_winding_start |-> 0,
      m_contours |->
         [axis |-> 0,
          kids |-> <<[pts |-> Len(TessPositions) - 1, ws |-> ws,
                      contours |-> [axis |-> 0, kids |-> <<>>,
                                    tess |-> Tess(<<>>),
                                    points |-> TessPositions]],
                     CtorLeaf(points_per_subset - 4)>>,
          tess |-> Tess(<<>>)]] : ws \in {0, -1}}

\* most splits below the root sub-path of a splitting run
MaxSplitDepth == 6

\* longest contour of the enumerated arguments of post_process_sub_contour
MaxContourLen == 3

\* a contour of the input path: every point starts an edge
Polygon(pts) == [i \in 1..Len(pts) |-> SubContourPoint(pts[i], TRUE)]

\* a contour of points_per_subset + 2 points around <<x, y>>, an edge every
\* three points
Cluster(x, y) ==
    [i \in 1..(points_per_subset + 2) |->
        SubContourPoint(<<x + 2 * (IF i % 3 = 1 THEN 1 ELSE 0),
                          y + 2 * (IF i % 3 = 2 THEN 1 ELSE 0)>>, i % 3 = 1)]

\* the contour with x and y exchanged
Transposed(C) == [i \in 1..Len(C) |-> [C[i] EXCEPT !.m_pt = <<@[2], @[1]>>]]

\* SubPath::SubPath(P): the bounds are those of the tessellated path
RootSubPath(pmin, pmax, contours) == SubPath(BoundingBox(pmin, pmax), contours, 0)

\* the contours of the input paths, all with the bounding box
\* (0,0)-(64,64): the box itself counter-clockwise, clockwise, and with a
\* smaller box inside;
\* vertices on the line x = 32 with the neighbours on both sides or on one
\* side; an edge that runs along x = 32
SplitSquareContours ==
    { << Polygon(<< <<0, 0>>, <<64, 0>>, <<64, 64>>, <<0, 64>> >>) >>,
      << Polygon(<< <<0, 0>>, <<0, 64>>, <<64, 64>>, <<64, 0>> >>) >>,
      << Polygon(<< <<0, 0>>, <<64, 0>>, <<64, 64>>, <<0, 64>> >>),
         Polygon(<< <<20, 20>>, <<60, 20>>, <<60, 60>>, <<20, 60>> >>) >>,
      << Polygon(<< <<0, 0>>, <<32, 0>>, <<64, 0>>, <<64, 64>>, <<32, 40>>, <<0, 64>> >>) >>,
      << Polygon(<< <<0, 0>>, <<32, 10>>, <<0, 20>>, <<0, 64>>, <<64, 64>>, <<64, 0>> >>) >>,
      << Polygon(<< <<0, 0>>, <<32, 10>>, <<32, 20>>, <<0, 64>>, <<64, 64>>, <<64, 0>> >>) >>,
      << Polygon(<< <<0, 0>>, <<64, 64>>, <<32, 8>>, <<64, 50>>, <<32, 4>> >>),
         Polygon(<< <<0, 64>>, <<10, 60>>, <<64, 0>> >>) >> }

\* input paths: the contours above and their transposes with a cluster in
\* the box (24,24)-(32,32); a box four times as wide as high, and one
\* eight times as wide, whose contour crosses x = mid more often than
\* y = mid
SplitPaths ==
    { RootSubPath(<<0, 0>>, <<64, 64>>, C \o <<Cluster(26, 26)>>) :
          C \in SplitSquareContours }
    \cup { RootSubPath(<<0, 0>>, <<64, 64>>,
                       <<Transposed(C[1]), Cluster(26, 26)>>) :
               C \in SplitSquareContours }
    \cup { RootSubPath(<<0, 0>>, <<w, 16>>,
              << Polygon(<< <<0, 0>>, <<w, 0>>, <<0, 4>>, <<w, 4>>, <<0, 16>> >>),
                 Cluster(18, 2) >>) : w \in {64, 128} }
    \cup { RootSubPath(<<0, 0>>, <<16, w>>,
              << Transposed(Polygon(<< <<0, 0>>, <<w, 0>>, <<0, 4>>, <<w, 4>>,
                                       <<0, 16>> >>)),
                 Cluster(2, 18) >>) : w \in {64, 128} }

\* points as split_contour makes them: on the boundary of one coordinate,
\* and on a corner k of the box
EdgePoint(tp) ==
    SubContourPoint_split(SubContourPoint(<<0, 0>>, TRUE), SubContourPoint(<<8, 8>>, TRUE),
                          <<4, 4>>, 1, tp)
CornerPoint(k) ==
    SubContourPoint_split(
        EdgePoint(IF k \div 2 = 1 THEN on_max_boundary ELSE on_min_boundary),
        EdgePoint(IF k \div 2 = 1 THEN on_max_boundary ELSE on_min_boundary),
        <<4, 4>>, 0, IF k % 2 = 1 THEN on_max_boundary ELSE on_min_boundary)

RECURSIVE SeqsUpTo(_, _)
SeqsUpTo(S, n) ==
    IF n = 0 THEN {<<>>}
    ELSE {<<>>} \cup {<<x>> \o t : x \in S, t \in SeqsUpTo(S, n - 1)}

\* the arguments of post_process_sub_contour: every contour of up to
\* MaxContourLen corner and other points, and the box run through once and
\* twice, forwards and backwards, and forth and back
PostProcessContours ==
    SeqsUpTo({CornerPoint(k) : k \in 0..3} \cup {EdgePoint(on_min_boundary)},
             MaxContourLen)
    \cup { [i \in 1..(4 * n) |-> CornerPoint(<<0, 2, 3, 1>>[((i - 1) % 4) + 1])] :
               n \in 1..2 }
    \cup { [i \in 1..(4 * n) |-> CornerPoint(<<0, 1, 3, 2>>[((i - 1) % 4) + 1])] :
               n \in 1..2 }
    \cup { [i \in 1..6 |-> CornerPoint(<<0, 2, 3, 2, 0, 1>>[i])] }

\* the winding numbers of the calls of the wide chunk specification: the
\* small ones, the last ones whose chunk ID is inside the range of int, the
\* first ones whose chunk ID is not, and the ends of the range of int
WideWindings ==
    ((0 - MaxW)..MaxW)
       \cup {1073741822, -1073741822, 1073741823, -1073741823,
             INT_MAX, 0 - INT_MAX, INT_MIN}

\* most PointHoard::fetch calls of a fetching run
MaxFetches == 4

\* the bounds of the SubPath of the fetching runs: twice box_dim wide and
\* high, so that iapply halves the coordinates and cuts them off
HoardBox == BoundingBox(<<0, 0>>, <<2 * box_dim, 2 * box_dim>>)

\* the points fetched: three that iapply takes to (0,0), two it takes to
\* (1,0), one it takes to (1,1)
HoardPoints == { <<0, 0>>, <<1, 0>>, <<1, 1>>, <<2, 0>>, <<3, 1>>, <<2, 2>> }

Identity3 == << <<1, 0, 0>>, <<0, 1, 0>>, <<0, 0, 1>> >>
Translate3(tx, ty) == << <<1, 0, tx>>, <<0, 1, ty>>, <<0, 0, 1>> >>

\* clip_equations and clip_matrix_local of a call: no clipping; x >= 5;
\* x <= 3 and y <= 3; y' >= 1 in clip coordinates y' = y - 4 (so y >= 5);
\* x >= 9 (everything clipped)
ClipInputs ==
    {[clip_equations |-> <<>>, clip_matrix_local |-> Identity3],
     [clip_equations |-> << <<1, 0, -5>> >>, clip_matrix_local |-> Identity3],
     [clip_equations |-> << <<-1, 0, 3>>, <<0, -1, 3>> >>,
      clip_matrix_local |-> Identity3],
     [clip_equations |-> << <<0, 1, -1>> >>, clip_matrix_local |-> Translate3(0, -4)],
     [clip_equations |-> << <<1, 0, -9>> >>, clip_matrix_local |-> Identity3]}

\* <<max_attribute_cnt, max_index_cnt>> of a call
Budgets == {<<100, 100>>, <<11, 36>>, <<11, 18>>, <<7, 18>>}

\* the calls of the writer specification: no clipping or x >= 5, everything
\* fits or only the leaves fit
WriterClipInputs == {c \in ClipInputs : Len(c.clip_equations) = 0
                                        \/ c.clip_equations = << <<1, 0, -5>> >>}
WriterBudgets == {<<100, 100>>, <<15, 36>>}

\* fill_rule_t arguments: the four standard rules, and two values that name
\* none
FillRuleInputs == 0..(fill_rule_data_count + 1)

\* fill rules as the set of integers on which the predicate is true, within
\* the integers the model considers
FillRules ==
    {PredicateSet(fcn_non_zero_fill_rule),
     PredicateSet(fcn_complelemt_non_zero_fill_rule),
     PredicateSet(fcn_odd_even_fill_rule),
     PredicateSet(fcn_complement_odd_even_fill_rule),
     {1}}

(***************************************************************************)
(* State.                                                                  *)
(***************************************************************************)
VARIABLES
    path,     \* the root SubPath built from the input path (never changes)
    tree,     \* FilledPathPrivate::m_subsets
    writer,   \* the DataWriterPrivate of the caller's DataWriter
    ret,      \* the last call: [op, args, dst, log, diag, evaluated, out]
    alive,    \* FALSE once the process has faulted
    bld       \* the builder of a make_ready_from_sub_path call in progress

vars == <<path, tree, writer, ret, alive, bld>>

NoCall == [op |-> "none", args |-> <<>>, dst |-> <<>>, log |-> <<>>,
           diag |-> FALSE, evaluated |-> {}, out |-> <<>>]

\* no make_ready_from_sub_path call is in progress
NoBuilder == [stage |-> "none"]

InitWith(paths) ==
    /\ path \in paths
    /\ tree = FilledPathPrivate(path)
    /\ writer = DataWriterPrivate
    /\ ret = NoCall
    /\ alive = TRUE
    /\ bld = NoBuilder

Init == InitWith(InputPaths(MaxLeaves, TessTree, {0, 1}))
InitWriter == InitWith(InputPaths(MaxWriterLeaves, TessWriter, {0}))
InitChunk == InitWith(InputPaths(1, {Tess(<<1>>)}, {0}))
InitCtor == InitWith(CtorPaths)
InitFillRule == InitWith(InputPaths(MaxWriterLeaves, {Tess(<<1, -2, 0>>)}, {0}))
InitSplit ==
    /\ path \in SplitPaths
    /\ tree = <<>>
    /\ writer = DataWriterPrivate
    /\ ret = NoCall
    /\ alive = TRUE
    /\ bld = NoBuilder
\* PointHoard::PointHoard over an empty vector of points
InitHoard ==
    /\ path = SubPath(HoardBox, <<>>, 0)
    /\ tree = <<>>
    /\ writer = DataWriterPrivate
    /\ ret = NoCall
    /\ alive = TRUE
    /\ bld = [stage |-> "hoard", m_bounds |-> path.m_bounds,
              m_pts |-> <<>>, m_map |-> <<>>]
InitTess ==
    /\ path \in TessPaths
    /\ tree = FilledPathPrivate(path)
    /\ writer = DataWriterPrivate
    /\ ret = NoCall
    /\ alive = TRUE
    /\ bld \in {[stage |-> "start", events |-> <<nz, z>>] :
                    nz \in TessStreams(NonZeroPolygons, MaxPolygons),
                    z \in ZeroStreams}

\* FilledPath::select_subsets
SelectSubsets(c, b) ==
    /\ alive
    /\ \E R \in {select_subsets(tree, c.clip_equations, c.clip_matrix_local,
                                b[1], b[2])} :
          /\ tree' = R.tree
          /\ ret' = [NoCall EXCEPT !.op = "select_subsets",
                                   !.args = [clip |-> c, budget |-> b],
                                   !.dst = R.dst, !.log = R.log, !.diag = R.diag]
    /\ UNCHANGED <<path, writer, alive, bld>>

\* FilledPath::subset
Subset(I) ==
    /\ alive
    /\ I < Len(tree)
    /\ \E R \in {subset(tree, I)} :
          /\ tree' = R.tree
          /\ ret' = [NoCall EXCEPT !.op = "subset", !.args = [I |-> I],
                                   !.log = R.log, !.diag = R.diag]
    /\ UNCHANGED <<path, writer, alive, bld>>

\* FilledPath::Subset::chunk_from_winding_number
\* ret.log keeps the call made before this one as <<winding_number, value>>
ChunkFromWindingNumber(w) ==
    /\ alive
    /\ \E o \in chunk_from_winding_number_outcomes(w) :
          /\ alive' = o.returned
          /\ ret' = [NoCall EXCEPT !.op = "chunk_from_winding_number",
                                   !.args = [winding_number |-> w],
                                   !.out = o.value,
                                   !.log = IF ret.op = "chunk_from_winding_number"
                                           THEN <<<<ret.args.winding_number, ret.out>>>>
                                           ELSE <<>>]
    /\ UNCHANGED <<path, tree, writer, bld>>

\* FilledPath::compute_writer
ComputeWriter(f, c, b) ==
    /\ alive
    /\ \E R \in compute_writer(tree, writer, f, c.clip_equations,
                               c.clip_matrix_local, b[1], b[2]) :
         IF R.crashed
         THEN alive' = FALSE /\ UNCHANGED <<path, tree, writer, ret, bld>>
         ELSE /\ tree' = R.tree
              /\ writer' = R.writer
              /\ ret' = [NoCall EXCEPT !.op = "compute_writer",
                                       !.args = [fill_rule |-> f, clip |-> c,
                                                 budget |-> b],
                                       !.dst = R.dst, !.log = R.log,
                                       !.diag = R.diag,
                                       !.evaluated = R.evaluated]
              /\ UNCHANGED <<path, alive, bld>>

\* FilledPath::compute_writer (fill_rule_t overload); fill_rule is any value
\* of the enumeration type, also one that names no fill rule
ComputeWriterFillRule(fill_rule, c, b) ==
    /\ alive
    /\ \E R \in compute_writer_fill_rule_t(tree, writer, fill_rule, c.clip_equations,
                                           c.clip_matrix_local, b[1], b[2]) :
         IF R.crashed
         THEN alive' = FALSE /\ UNCHANGED <<path, tree, writer, ret, bld>>
         ELSE /\ tree' = R.tree
              /\ writer' = R.writer
              /\ ret' = [NoCall EXCEPT !.op = "compute_writer_fill_rule_t",
                                       !.args = [fill_rule |-> fill_rule, clip |-> c,
                                                 budget |-> b],
                                       !.dst = R.dst, !.log = R.log,
                                       !.diag = R.diag,
                                       !.evaluated = R.evaluated]
              /\ UNCHANGED <<path, alive, bld>>

\* FilledPath::DataWriter::write_attributes
WriteAttributes(attribute_chunk) ==
    /\ alive
    /\ attribute_chunk < Len(writer.m_attribute_chunks)
    /\ ret' = [NoCall EXCEPT !.op = "write_attributes",
                             !.args = [attribute_chunk |-> attribute_chunk],
                             !.out = write_attributes(writer, attribute_chunk)]
    /\ UNCHANGED <<path, tree, writer, alive, bld>>

Next ==
    \/ \E c \in ClipInputs, b \in Budgets : SelectSubsets(c, b)
    \/ \E I \in 0..(2 * MaxLeaves) : Subset(I)

NextChunk == \E w \in (-MaxW)..MaxW : ChunkFromWindingNumber(w)
NextChunkWide == \E w \in WideWindings : ChunkFromWindingNumber(w)

NextWriter ==
    \/ \E f \in FillRules, c \in WriterClipInputs, b \in WriterBudgets :
          ComputeWriter(f, c, b)
    \/ \E k \in 0..MaxWriterLeaves : WriteAttributes(k)
    \/ \E I \in 0..(2 * MaxWriterLeaves) : Subset(I)

\* calls of the fill_rule_t overload of compute_writer, for any value of the
\* enumeration type, between subset calls
NextFillRule ==
    \/ \E fill_rule \in FillRuleInputs, c \in WriterClipInputs,
          b \in WriterBudgets : ComputeWriterFillRule(fill_rule, c, b)
    \/ \E I \in 0..(2 * MaxWriterLeaves) : Subset(I)

\* the callbacks of the pass in progress
Stream(b) == IF b.stage = "non_zero" THEN b.events[1] ELSE b.events[2]

\* SubsetPrivate::make_ready_from_sub_path on the leaf TessLeaf, up to the
\* start of the non-zero pass of builder B
BuilderStart ==
    /\ bld.stage = "start"
    /\ \E u \in IndeterminateCounts :
          bld' = builder_ctor(Deref(Node(tree, TessLeaf).m_sub_path),
                              Deref(Node(tree, TessLeaf).m_sub_path).m_contours.points,
                              bld.events, u)
    /\ UNCHANGED <<path, tree, writer, ret, alive>>

\* the tessellator calls tesser::begin_callBack
BeginCallBack ==
    /\ bld.stage \in {"non_zero", "zero"}
    /\ bld.pc < Len(Stream(bld))
    /\ Stream(bld)[bld.pc + 1][1] = "begin"
    /\ bld' = [tesser_begin_callBack(bld, Stream(bld)[bld.pc + 1][2])
                 EXCEPT !.pc = bld.pc + 1]
    /\ UNCHANGED <<path, tree, writer, ret, alive>>

\* the tessellator calls tesser::vertex_callBack
VertexCallBack ==
    /\ bld.stage \in {"non_zero", "zero"}
    /\ bld.pc < Len(Stream(bld))
    /\ Stream(bld)[bld.pc + 1][1] = "vertex"
    /\ bld' = [tesser_vertex_callBack(bld, Stream(bld)[bld.pc + 1][2])
                 EXCEPT !.pc = bld.pc + 1]
    /\ UNCHANGED <<path, tree, writer, ret, alive>>

\* the non-zero pass returns and the zero pass starts
NonZeroPassDone ==
    /\ bld.stage = "non_zero"
    /\ bld.pc = Len(Stream(bld))
    /\ \E u \in IndeterminateCounts : bld' = builder_non_zero_done(bld, u)
    /\ UNCHANGED <<path, tree, writer, ret, alive>>

\* the zero pass returns: builder B is constructed
ZeroPassDone ==
    /\ bld.stage = "zero"
    /\ bld.pc = Len(Stream(bld))
    /\ bld' = builder_zero_done(bld)
    /\ UNCHANGED <<path, tree, writer, ret, alive>>

\* SubsetPrivate::make_ready_from_sub_path after the construction of
\* builder B: fill_indices, the sizes, the painter data, the winding data,
\* the deletion of m_sub_path; after an assignment outside index_chunks the
\* program goes on or stops
FillFromBuilder ==
    /\ bld.stage = "built"
    /\ \E F \in {fill_indices(bld.m_hoard)} :
          /\ bld' = [bld EXCEPT !.stage = "baked", !.fill = F]
          /\ tree' = [tree EXCEPT ![TessLeaf + 1] =
                         [SubsetPrivate_filled(@, AttributeDataFiller(bld.m_pts, F))
                             EXCEPT !.m_sub_path = NULL]]
          /\ alive' \in IF AttributeDataFiller_fill_data_out_of_range(
                                AttributeDataFiller(bld.m_pts, F))
                         THEN {TRUE, FALSE}
                         ELSE {alive}
    /\ ret' = [NoCall EXCEPT !.op = "make_ready_from_sub_path",
                             !.args = [I |-> TessLeaf],
                             !.log = <<<<"tess", TessLeaf>>>>]
    /\ UNCHANGED <<path, writer>>

\* FilledPath::subset(0) once the leaf is baked: the other leaf is baked
\* and the root merges the two
SubsetOfRoot ==
    /\ bld.stage = "baked"
    /\ Node(tree, 0).m_painter_data = NULL
    /\ Subset(0)

NextTess ==
    \/ BuilderStart
    \/ BeginCallBack
    \/ VertexCallBack
    \/ NonZeroPassDone
    \/ ZeroPassDone
    \/ FillFromBuilder
    \/ SubsetOfRoot

\* the SubPath the next split works on: the root, or a child of the last
\* split
SplitSubject(k) == IF ret.op = "split" THEN ret.out[k] ELSE path
SplitDepth == IF ret.op = "split" THEN ret.args.depth + 1 ELSE 0

\* SubsetPrivate::SubsetPrivate calls SubPath::split on a SubPath with more
\* than points_per_subset points, and goes on with the children if one of
\* them has fewer points
Split(k) ==
    /\ alive
    /\ ret.op = "split" =>
          \/ ret.out[1].m_total_points < ret.args.Q.m_total_points
          \/ ret.out[2].m_total_points < ret.args.Q.m_total_points
    /\ SplitDepth < t_min(MaxSplitDepth, recursion_depth)
    /\ SplitSubject(k).m_total_points > points_per_subset
    /\ ret' = [NoCall EXCEPT !.op = "split",
                             !.args = [Q |-> SplitSubject(k), depth |-> SplitDepth],
                             !.out = split(SplitSubject(k))]
    /\ UNCHANGED <<path, tree, writer, alive, bld>>

\* SubPath::post_process_sub_contour, a function of its argument alone:
\* applied to each argument from the initial state
PostProcessSubContour(C) ==
    /\ alive
    /\ ret.op = "none"
    /\ ret' = [NoCall EXCEPT !.op = "post_process_sub_contour",
                             !.args = [C |-> C],
                             !.out = post_process_sub_contour(C)]
    /\ UNCHANGED <<path, tree, writer, alive, bld>>

NextSplit ==
    \/ \E k \in 1..2 : Split(k)
    \/ \E C \in PostProcessContours : PostProcessSubContour(C)

\* PointHoard::fetch; ret.log keeps the calls made so far as <<pt, ID>>
Fetch(pt) ==
    /\ alive
    /\ bld.stage = "hoard"
    /\ Len(ret.log) < MaxFetches
    /\ bld' = PointHoard_fetch(bld, pt)
    /\ ret' = [NoCall EXCEPT !.op = "fetch",
                             !.args = [pt |-> pt],
                             !.out = PointHoard_fetch_value(bld, pt),
                             !.log = Append(ret.log,
                                            <<pt, PointHoard_fetch_value(bld, pt)>>)]
    /\ UNCHANGED <<path, tree, writer, alive>>

NextHoard == \E pt \in HoardPoints : Fetch(pt)

NextCtor == \E I \in 0..MaxCtorSubset : Subset(I)

Spec == Init /\ [][Next]_vars
SpecWriter == InitWriter /\ [][NextWriter]_vars
SpecChunk == InitChunk /\ [][NextChunk]_vars
SpecCtor == InitCtor /\ [][NextCtor]_vars
SpecFillRule == InitFillRule /\ [][NextFillRule]_vars
SpecTess == InitTess /\ [][NextTess]_vars
SpecSplit == InitSplit /\ [][NextSplit]_vars
SpecChunkWide == InitChunk /\ [][NextChunkWide]_vars
SpecHoard == InitHoard /\ [][NextHoard]_vars

(***************************************************************************)
(* Vocabulary of the properties.                                           *)
(***************************************************************************)
IDs == 0..(Len(tree) - 1)
IsLeaf(id) == Node(tree, id).m_children[1] = NULL
ChildrenOf(id) ==
    IF IsLeaf(id) THEN {}
    ELSE {Deref(Node(tree, id).m_children[1]), Deref(Node(tree, id).m_children[2])}

RECURSIVE SubtreeOf(_)
\* the node id and its descendants
SubtreeOf(id) == {id} \cup UNION {SubtreeOf(c) : c \in ChildrenOf(id)}
DescendantsOf(id) == SubtreeOf(id) \ {id}
AncestorsOf(id) == {a \in IDs : id \in DescendantsOf(a)}
LeavesOf(id) == {l \in SubtreeOf(id) : IsLeaf(l)}

\* the point p of local coordinates in clip coordinates, and whether it
\* satisfies every clip equation of the call c
InClipRegion(c, p) ==
    LET M == c.clip_matrix_local
        q == [i \in 1..3 |-> M[i][1] * p[1] + M[i][2] * p[2] + M[i][3]]
    IN \A k \in 1..Len(c.clip_equations) :
          c.clip_equations[k][1] * q[1] + c.clip_equations[k][2] * q[2]
             + c.clip_equations[k][3] * q[3] >= 0

\* the bounding box of node id meets the clip region of the call c (the
\* boxes and the clip planes of the model have integer coordinates, so a
\* non-empty intersection holds a point with integer coordinates)
NotCompletelyClipped(id, c) ==
    \E x \in Node(tree, id).m_bounds.m_min[1]..Node(tree, id).m_bounds.m_max[1],
       y \in Node(tree, id).m_bounds.m_min[2]..Node(tree, id).m_bounds.m_max[2] :
          InClipRegion(c, <<x, y>>)

\* the baked sizes of node id are within the budgets b of a call
FitsBudget(id, b) ==
    /\ Node(tree, id).m_sizes_ready
    /\ Node(tree, id).m_num_attributes <= b[1]
    /\ Node(tree, id).m_largest_index_block <= b[2]

IsSelect == ret.op = "select_subsets"

(***************************************************************************)
(* Properties.                                                             *)
(***************************************************************************)

\* C1: chunk_from_winding_number(w) is 4 + 2*(|w| - 1) + (1 if w < 0, else
\* 0) for every winding number w # 0, and 2 for w = 0.
C1_ChunkFormula ==
    ret.op = "chunk_from_winding_number" =>
        LET w == ret.args.winding_number
        IN ret.out = IF w = 0 THEN 2
                     ELSE 4 + 2 * ((IF w < 0 THEN -w ELSE w) - 1)
                            + (IF w < 0 THEN 1 ELSE 0)

\* C1 witness: the call has been made on a negative winding number.
C1_Witness ==
    /\ ret.op = "chunk_from_winding_number"
    /\ ret.args.winding_number = -3
    /\ ret.out = 9

\* C3 (as stated): the ID list written by select_subsets is strictly
\* increasing, never holds a node together with one of its descendants, and
\* every leaf whose bounding box is not completely clipped is in the list
\* or has exactly one ancestor in it.
C3_OrderedDisjointCover ==
    IsSelect =>
        /\ \A i \in 1..(Len(ret.dst) - 1) : ret.dst[i] < ret.dst[i + 1]
        /\ \A a \in Range(ret.dst) : DescendantsOf(a) \cap Range(ret.dst) = {}
        /\ \A l \in IDs :
              (IsLeaf(l) /\ NotCompletelyClipped(l, ret.args.clip)) =>
                  \/ l \in Range(ret.dst)
                       /\ AncestorsOf(l) \cap Range(ret.dst) = {}
                  \/ l \notin Range(ret.dst)
                       /\ Cardinality(AncestorsOf(l) \cap Range(ret.dst)) = 1

\* C4 (as stated): a childless subset that passes the cull and whose baked
\* sizes exceed the budgets is still written to the ID list.
C4_OversizedLeafWritten ==
    IsSelect =>
        \A l \in IDs :
            (/\ IsLeaf(l)
             /\ NotCompletelyClipped(l, ret.args.clip)
             /\ AncestorsOf(l) \cap Range(ret.dst) = {}
             /\ Node(tree, l).m_sizes_ready
             /\ ~FitsBudget(l, ret.args.budget))
            => l \in Range(ret.dst)

\* C5: every ID written by select_subsets names a subset whose bounding box
\* meets the clip region of the transformed clip equations; a subset whose
\* bounding box is completely clipped is never written, and neither is any
\* of its descendants.
C5_WrittenMeetClip ==
    IsSelect =>
        /\ \A id \in Range(ret.dst) : NotCompletelyClipped(id, ret.args.clip)
        /\ \A n \in IDs :
              ~NotCompletelyClipped(n, ret.args.clip)
                  => SubtreeOf(n) \cap Range(ret.dst) = {}

\* C5 witness: a call that wrote one subset of a tree and culled another.
C5_Witness ==
    /\ IsSelect
    /\ ret.dst # <<>>
    /\ \E n \in IDs : ~NotCompletelyClipped(n, ret.args.clip)

\* C6: make_ready is idempotent: a subset(I) call on a node that already
\* holds painter data changes nothing in the tree (painter data, winding
\* numbers, per-vertex winding sets, size counters) and runs no
\* tessellation and no merge.
C6_MakeReadyIdempotent ==
    [][(ret'.op = "subset" /\ Node(tree, ret'.args.I).m_painter_data # NULL)
          => (tree' = tree /\ ret'.log = <<>>)]_vars

\* C6 witness: subset(I) has returned without running a tessellation or a
\* merge, which happens only on a node that was baked before the call.
C6_Witness ==
    /\ ret.op = "subset"
    /\ ret.log = <<>>
    /\ Node(tree, ret.args.I).m_painter_data # NULL

\* C7: during select_subsets a leaf becomes baked only if it was reached
\* with a bounding box that is not completely clipped (neither it nor any
\* of its ancestors is culled), and every node inside a culled subtree is
\* left unchanged.
C7_OnlyUnculledBaked ==
    [][ret'.op = "select_subsets" =>
          /\ \A l \in IDs :
                (/\ IsLeaf(l)
                 /\ Node(tree, l).m_painter_data = NULL
                 /\ Node(tree', l).m_painter_data # NULL)
                => \A a \in {l} \cup AncestorsOf(l) :
                      NotCompletelyClipped(a, ret'.args.clip)
          /\ \A n \in IDs :
                ~NotCompletelyClipped(n, ret'.args.clip)
                => \A d \in SubtreeOf(n) : Node(tree', d) = Node(tree, d)]_vars

\* C7 witness: a select_subsets call that baked a leaf while another leaf,
\* culled, still holds its SubPath.
C7_Witness ==
    /\ IsSelect
    /\ \E t \in Range(ret.log) : t[1] = "tess"
    /\ \E n \in IDs :
          /\ IsLeaf(n)
          /\ ~NotCompletelyClipped(n, ret.args.clip)
          /\ Node(tree, n).m_sub_path # NULL

\* C8 (as stated): every node has both children null or both non-null, and
\* holds painter data iff its sub_path pointer is null.
C8_BakedIffNoSubPath ==
    \A id \in IDs :
        /\ (Node(tree, id).m_children[1] = NULL) = (Node(tree, id).m_children[2] = NULL)
        /\ (Node(tree, id).m_painter_data # NULL) = (Node(tree, id).m_sub_path = NULL)

\* C8 (amended): every node has both children null or both non-null; a
\* childless node holds painter data iff its sub_path pointer is null; a
\* node with children has a null sub_path pointer whether it is baked or
\* not.
C8_LeafBakedIffNoSubPath ==
    \A id \in IDs :
        /\ (Node(tree, id).m_children[1] = NULL) = (Node(tree, id).m_children[2] = NULL)
        /\ IsLeaf(id) =>
              (Node(tree, id).m_painter_data # NULL) = (Node(tree, id).m_sub_path = NULL)
        /\ ~IsLeaf(id) => Node(tree, id).m_sub_path = NULL

\* C8 witness: a tree with a baked leaf and a node with children that is
\* not baked.
C8_Witness ==
    /\ \E l \in IDs : IsLeaf(l) /\ Node(tree, l).m_painter_data # NULL
    /\ \E n \in IDs : ~IsLeaf(n) /\ Node(tree, n).m_painter_data = NULL

\* the ID list a first select_subsets call on a freshly built FilledPath of
\* the same path returns for the arguments of the last call
FreshDst ==
    select_subsets(FilledPathPrivate(path), ret.args.clip.clip_equations,
                   ret.args.clip.clip_matrix_local,
                   ret.args.budget[1], ret.args.budget[2]).dst

\* the ID list s with every ID replaced by the leaves of its subtree
ExpandToLeaves(s) == Flatten([i \in 1..Len(s) |-> SortedSeq(LeavesOf(s[i]))])

\* C9 (as stated): select_subsets returns the same ID list whether it is
\* the first call on a freshly built FilledPath or a later call on the same
\* object.
C9_SameListAsFresh == IsSelect => ret.dst = FreshDst

\* C9 (amended): the ID list of any select_subsets call, with every ID
\* replaced by the leaves of its subtree in increasing order, is the ID list
\* the first call on a freshly built FilledPath returns for the same
\* arguments.
C9_SameLeavesAsFresh == IsSelect => ExpandToLeaves(ret.dst) = FreshDst

\* C9 witness: a later call returned a node with children, where the first
\* call on a fresh FilledPath returns leaves.
C9_Witness ==
    /\ IsSelect
    /\ \E i \in 1..Len(ret.dst) : ~IsLeaf(ret.dst[i])
    /\ FreshDst # <<>>

\* the selected subsets that get an attribute chunk from compute_writer:
\* those with at least one winding number the fill rule selects, in the
\* order of the ID list
ChunkSubsets ==
    SelectSeq(ret.dst,
              LAMBDA id : Range(Node(tree, id).m_winding_numbers)
                             \cap ret.args.fill_rule # {})

\* some triangle emitted by subset id with vertex v as a corner has a
\* winding number the fill rule of the last compute_writer does not select
OnFillBoundary(id, v) ==
    \E w \in Range(Node(tree, id).m_winding_numbers) :
        /\ w \notin ret.args.fill_rule
        /\ v \in Range(index_data_chunk(Deref(Node(tree, id).m_painter_data),
                                        chunk_from_winding_number(w)))

\* C2 (as stated): after compute_writer with fill rule R, write_attributes
\* on any attribute chunk copies x and y of every vertex and writes the flag
\* 0.0 iff a triangle emitted with the vertex as a corner has a winding
\* number for which R is false, 1.0 otherwise.
C2_BoundaryFlag ==
    [][(ret.op = "compute_writer" /\ ret'.op = "write_attributes") =>
          LET id == ChunkSubsets[ret'.args.attribute_chunk + 1]
              src == attribute_data_chunk(Deref(Node(tree, id).m_painter_data), 0)
          IN /\ Len(ret'.out) = Len(src)
             /\ \A i \in 1..Len(src) :
                   /\ ret'.out[i].m_attrib0[1] = src[i].m_attrib0[1]
                   /\ ret'.out[i].m_attrib0[2] = src[i].m_attrib0[2]
                   /\ ret'.out[i].m_attrib0[3] =
                         IF OnFillBoundary(id, i - 1) THEN pack_float(0)
                         ELSE pack_float(1)]_vars

\* the winding numbers present in the subsets the selection returned
ObservedWindings ==
    UNION {Range(Node(tree, ret.dst[i]).m_winding_numbers) : i \in 1..Len(ret.dst)}

\* C10 (as stated): compute_writer evaluates the fill rule only on integers
\* between the smallest and the largest winding number present in the
\* selected subsets, and on no integer when the selection returns no subset.
C10_EvaluatedInObservedRange ==
    ret.op = "compute_writer" =>
        /\ ret.dst = <<>> => ret.evaluated = {}
        /\ \A w \in ret.evaluated :
              \E lo \in ObservedWindings, hi \in ObservedWindings :
                  lo <= w /\ w <= hi

\* ---------------------------------------------------------------------
\* fill rule enumeration

\* the values of fill_rule_t that name a fill rule
StandardFillRules ==
    {nonzero_fill_rule, odd_even_fill_rule, complement_nonzero_fill_rule,
     complement_odd_even_fill_rule}

Baked(id) == Node(tree, id).m_painter_data # NULL
PainterData(id) == Deref(Node(tree, id).m_painter_data)
Child(id, k) == Deref(Node(tree, id).m_children[k])

\* the chunk IDs either of two painter data has
ChunkIDs(a, b) == 0..(t_max(Len(a.index_chunks), Len(b.index_chunks)) - 1)

\* C17: a baked node with children A and B has as vertex array A's vertices
\* followed by B's, as index chunk c (for every chunk ID c of A or B) A's
\* chunk c followed by B's chunk c with the number of A's vertices added to
\* each index, as per-vertex winding sets A's followed by B's, and as
\* winding-number list the sorted union of the children's lists.
C17_MergeConcatenates ==
    \A id \in IDs :
        (~IsLeaf(id) /\ Baked(id)) =>
            /\ Baked(Child(id, 1)) /\ Baked(Child(id, 2))
            /\ LET N == PainterData(id)
                   A == PainterData(Child(id, 1))
                   B == PainterData(Child(id, 2))
                   nA == Len(attribute_data_chunk(A, 0))
               IN /\ attribute_data_chunk(N, 0)
                        = attribute_data_chunk(A, 0) \o attribute_data_chunk(B, 0)
                  /\ Len(N.index_chunks) = Cardinality(ChunkIDs(A, B))
                  /\ \A c \in ChunkIDs(A, B) :
                        /\ Len(index_data_chunk(N, c))
                             = Len(index_data_chunk(A, c)) + Len(index_data_chunk(B, c))
                        /\ \A i \in 1..Len(index_data_chunk(N, c)) :
                              index_data_chunk(N, c)[i]
                                 = IF i <= Len(index_data_chunk(A, c))
                                   THEN index_data_chunk(A, c)[i]
                                   ELSE index_data_chunk(B, c)[i - Len(index_data_chunk(A, c))] + nA
            /\ Node(tree, id).m_windings_per_pt
                  = Node(tree, Child(id, 1)).m_windings_per_pt
                      \o Node(tree, Child(id, 2)).m_windings_per_pt
            /\ Node(tree, id).m_winding_numbers
                  = SortedSeq(Range(Node(tree, Child(id, 1)).m_winding_numbers)
                                \cup Range(Node(tree, Child(id, 2)).m_winding_numbers))

\* C17 witness: a baked node whose children have different numbers of index
\* chunks and both bring vertices and indices.
C17_Witness ==
    \E id \in IDs :
        /\ ~IsLeaf(id) /\ Baked(id)
        /\ Len(PainterData(Child(id, 1)).index_chunks)
              # Len(PainterData(Child(id, 2)).index_chunks)
        /\ \A k \in 1..2 :
              /\ attribute_data_chunk(PainterData(Child(id, k)), 0) # <<>>
              /\ index_data_chunk(PainterData(Child(id, k)), 0) # <<>>

\* the SubPath the leaf id was built with (a baked leaf has deleted its own)
SubPathOfLeaf(id) == Deref(Node(FilledPathPrivate(path), id).m_sub_path)

\* C18: for every baked subset the per-vertex winding-set array is parallel
\* to the vertex array: it is as long as attribute chunk 0, and on a leaf
\* entry i is the winding set of the point behind attribute i.
C18_WindingSetsParallel ==
    \A id \in IDs :
        Baked(id) =>
            /\ Len(Node(tree, id).m_windings_per_pt)
                  = Len(attribute_data_chunk(PainterData(id), 0))
            /\ IsLeaf(id) =>
                  LET pts == builder(SubPathOfLeaf(id)).m_points
                  IN \A i \in 1..Len(attribute_data_chunk(PainterData(id), 0)) :
                        /\ attribute_data_chunk(PainterData(id), 0)[i]
                              = generate_attribute(pts[i])
                        /\ Node(tree, id).m_windings_per_pt[i]
                              = extract_from_set(pts[i].m_winding)

\* ---------------------------------------------------------------------
\* shape of the tree

\* the node id hangs below, its depth, and the SubPath its constructor was
\* given, from the input path along the children pointers
ParentOf(id) == CHOOSE p \in IDs : id \in ChildrenOf(p)

RECURSIVE DepthOf(_)
DepthOf(id) == IF id = 0 THEN 0 ELSE 1 + DepthOf(ParentOf(id))

RECURSIVE SubPathOf(_)
SubPathOf(id) ==
    IF id = 0 THEN path
    ELSE SubPath_split(SubPathOf(ParentOf(id)))[
             IF Child(ParentOf(id), 1) = id THEN 1 ELSE 2]

\* the interiors of the boxes a and b have no common point
DisjointInteriors(a, b) ==
    \E i \in 1..2 : a.m_max[i] <= b.m_min[i] \/ b.m_max[i] <= a.m_min[i]

\* C13: the boxes of the two children of a node lie inside the node's box,
\* cover it together, and meet only on the line through the midpoint of the
\* node's box along one axis; the boxes of two nodes of the same depth have
\* disjoint interiors.
C13_ChildrenBoxesTileParent ==
    /\ \A id \in IDs :
          ~IsLeaf(id) =>
             LET P == Node(tree, id).m_bounds
                 A == Node(tree, Child(id, 1)).m_bounds
                 B == Node(tree, Child(id, 2)).m_bounds
             IN \E i \in 1..2 :
                   LET o == 3 - i
                   IN /\ A.m_min = P.m_min /\ B.m_max = P.m_max
                      /\ A.m_min[o] = B.m_min[o] /\ A.m_max[o] = B.m_max[o]
                      /\ A.m_max[i] = B.m_min[i]
                      /\ 2 * A.m_max[i] = P.m_min[i] + P.m_max[i]
                      /\ P.m_min[i] < A.m_max[i] /\ A.m_max[i] < P.m_max[i]
    /\ \A a, b \in IDs :
          (a # b /\ DepthOf(a) = DepthOf(b)) =>
             DisjointInteriors(Node(tree, a).m_bounds, Node(tree, b).m_bounds)

\* C13 witness: two nodes of the same depth that both have children.
C13_Witness ==
    \E a, b \in IDs :
        /\ a # b /\ DepthOf(a) = DepthOf(b)
        /\ ~IsLeaf(a) /\ ~IsLeaf(b)

\* C15: a node has children exactly when its depth is below recursion_depth,
\* its SubPath has more than points_per_subset points and split() leaves on
\* at least one side fewer points than the SubPath has; a node with children
\* has no SubPath, a node without (until it is baked) the SubPath it was
\* built with; the tree holds no other node, and no node is deeper than
\* recursion_depth.
C15_InteriorIffSplitHelps ==
    /\ \A id \in IDs \ {0} : \E p \in IDs : id \in ChildrenOf(p)
    /\ \A id \in IDs :
          LET Q == SubPathOf(id)
          IN /\ DepthOf(id) <= recursion_depth
             /\ (~IsLeaf(id))
                  = (/\ DepthOf(id) < recursion_depth
                     /\ Q.m_total_points > points_per_subset
                     /\ \E k \in 1..2 :
                           SubPath_split(Q)[k].m_total_points < Q.m_total_points)
             /\ ~IsLeaf(id) => Node(tree, id).m_sub_path = NULL
             /\ (IsLeaf(id) /\ ~Baked(id)) => Node(tree, id).m_sub_path = Ptr(Q)

\* C15 witness: a tree with a leaf at depth recursion_depth that has more
\* than points_per_subset points and that split() would reduce, and with a
\* leaf above that depth of more than points_per_subset points that
\* split() does not reduce.
C15_Witness ==
    /\ \E id \in IDs :
          /\ IsLeaf(id) /\ DepthOf(id) = recursion_depth
          /\ SubPathOf(id).m_total_points > points_per_subset
          /\ \E k \in 1..2 : SubPath_split(SubPathOf(id))[k].m_total_points
                                < SubPathOf(id).m_total_points
    /\ \E id \in IDs :
          /\ IsLeaf(id) /\ DepthOf(id) < recursion_depth
          /\ SubPathOf(id).m_total_points > points_per_subset

\* ---------------------------------------------------------------------
\* the callbacks of the tessellator

\* a pass is in progress in b; the step is a vertex / a begin callback
InPass(b) == b.stage \in {"non_zero", "zero"}
IsVertexStep ==
    /\ InPass(bld) /\ bld'.stage = bld.stage /\ bld'.pc = bld.pc + 1
    /\ Stream(bld)[bld.pc + 1][1] = "vertex"
IsBeginStep ==
    /\ InPass(bld) /\ bld'.stage = bld.stage /\ bld'.pc = bld.pc + 1
    /\ Stream(bld)[bld.pc + 1][1] = "begin"

\* the callbacks made so far in the pass in progress, the position of the
\* last begin callback among them, and the vertex IDs received since
Consumed(b) == SubSeq(Stream(b), 1, b.pc)
LastBegin(E) == SetMax({0} \cup {k \in 1..Len(E) : E[k][1] = "begin"})
SinceBegin(b) ==
    [k \in 1..(b.pc - LastBegin(Consumed(b))) |->
        Consumed(b)[LastBegin(Consumed(b)) + k][2]]

\* the position of the point with the ID v, and the ID of the point at pt
PositionOf(b, v) == b.m_pts[v + 1].m_pt
PointAt(b, pt) == CHOOSE v \in 0..(Len(b.m_pts) - 1) : b.m_pts[v + 1].m_pt = pt

\* the IDs a, b, c make a triangle that is emitted: none is the null ID,
\* they and their positions are pairwise distinct, the area is positive
ValidTriple(b, g) ==
    /\ \A i \in 1..3 : g[i] # FASTUIDRAW_GLU_NULL_CLIENT_ID
    /\ g[1] # g[2] /\ g[1] # g[3] /\ g[2] # g[3]
    /\ PositionOf(b, g[1]) # PositionOf(b, g[2])
    /\ PositionOf(b, g[1]) # PositionOf(b, g[3])
    /\ PositionOf(b, g[2]) # PositionOf(b, g[3])
    /\ LET p == [i \in 1..3 |-> PositionOf(b, g[i])]
       IN (p[2][1] - p[1][1]) * (p[3][2] - p[1][2])
            # (p[2][2] - p[1][2]) * (p[3][1] - p[1][1])

\* the PointHoard of b holds a point at pt
HasPointAt(b, pt) == \E v \in 0..(Len(b.m_pts) - 1) : b.m_pts[v + 1].m_pt = pt

\* the PointHoard of b holds the three midpoints and the centre of triple g
HasMidpoints(b, g) ==
    LET p == [i \in 1..3 |-> PositionOf(b, g[i])]
    IN /\ \A i, j \in 1..3 :
             i < j => HasPointAt(b, <<(p[i][1] + p[j][1]) \div 2,
                                      (p[i][2] + p[j][2]) \div 2>>)
       /\ HasPointAt(b, <<(p[1][1] + p[2][1] + p[3][1]) \div 3,
                          (p[1][2] + p[2][2] + p[3][2]) \div 3>>)

\* the 18 indices of the triple g, the midpoints and the centre looked up
\* in the PointHoard of b by their position
EighteenIndices(b, g) ==
    LET p == [i \in 1..3 |-> PositionOf(b, g[i])]
        mid(i, j) == PointAt(b, <<(p[i][1] + p[j][1]) \div 2, (p[i][2] + p[j][2]) \div 2>>)
        gc == PointAt(b, <<(p[1][1] + p[2][1] + p[3][1]) \div 3,
                          (p[1][2] + p[2][2] + p[3][2]) \div 3>>)
    IN << g[1], mid(1, 2), gc,   g[1], gc, mid(1, 3),
          gc, g[2], mid(2, 3),   mid(1, 2), g[2], gc,
          mid(1, 3), gc, g[3],   gc, mid(2, 3), g[3] >>

\* the key of the bucket the tesser of b adds indices to
CurrentBucket(b) ==
    IF b.stage = "non_zero" THEN Deref(b.m_current_indices) ELSE Deref(b.m_indices)

\* the last three of the vertex IDs s
LastThree(s) == SubSeq(s, Len(s) - 2, Len(s))

LeafWindingStart == SubPathOf(TessLeaf).m_winding_start

\* the bucket the claim names for the callbacks made so far in b: in the
\* non-zero pass the winding number of the last begin callback plus
\* winding_start, in the zero pass winding_start
BiasedBucket(b) ==
    IF b.stage = "non_zero"
    THEN Consumed(b)[LastBegin(Consumed(b))][2] + LeafWindingStart
    ELSE LeafWindingStart

\* C20: a vertex callback adds indices to no bucket but that of the biased
\* winding number (tessellator winding plus winding_start in the non-zero
\* pass, winding_start in the zero pass), and the key of that bucket is in
\* the winding set of every vertex recorded in it.
C20_BucketIsBiasedWinding ==
    [][IsVertexStep =>
          /\ BiasedBucket(bld') \in DOMAIN bld'.m_hoard
          /\ \A k \in DOMAIN bld'.m_hoard \ {BiasedBucket(bld')} :
                k \in DOMAIN bld.m_hoard /\ bld'.m_hoard[k] = bld.m_hoard[k]
          /\ \A i \in 1..Len(bld'.m_hoard[BiasedBucket(bld')]) :
                BiasedBucket(bld')
                   \in bld'.m_pts[bld'.m_hoard[BiasedBucket(bld')][i] + 1].m_winding]_vars

\* C20 witness: the zero pass of a leaf with winding_start -1 has recorded
\* a triangle, after a non-zero pass that recorded triangles of the
\* tessellator windings 1 and 2.
C20_Witness ==
    /\ bld.stage = "zero"
    /\ LeafWindingStart = -1
    /\ DOMAIN bld.m_hoard = {-1, 0, 1}
    /\ \A k \in DOMAIN bld.m_hoard : Len(bld.m_hoard[k]) >= 18

\* the tessellator hands the null client ID to a vertex callback of E
NullIn(E) ==
    \E k \in 1..Len(E) :
        E[k][1] = "vertex" /\ E[k][2] = FASTUIDRAW_GLU_NULL_CLIENT_ID

\* C11: during a pass m_triangulation_failed is true exactly when a vertex
\* callback of the pass so far was handed the null client ID; a group of
\* three that holds the null ID adds no index, a valid group after it adds
\* its 18 indices; the builder ends with failNZ and failZ telling whether
\* the pass was handed the null ID and m_failed = failNZ \/ failZ; and the
\* call goes on to give the leaf its painter data.
C11_NullVertexFailsPassOnly ==
    [][/\ InPass(bld') => bld'.m_triangulation_failed = NullIn(Consumed(bld'))
       /\ (IsVertexStep /\ Len(SinceBegin(bld')) % 3 = 0) =>
             /\ (\E i \in 1..3 : LastThree(SinceBegin(bld'))[i]
                                     = FASTUIDRAW_GLU_NULL_CLIENT_ID)
                   => bld'.m_hoard = bld.m_hoard
             /\ (bld.m_triangulation_failed
                   /\ ValidTriple(bld, LastThree(SinceBegin(bld'))))
                   => Len(bld'.m_hoard[CurrentBucket(bld)])
                        = Len(bld.m_hoard[CurrentBucket(bld)]) + 18
       /\ bld'.stage \in {"zero", "built", "baked"} =>
             bld'.failNZ = NullIn(bld'.events[1])
       /\ bld'.stage \in {"built", "baked"} =>
             /\ bld'.failZ = NullIn(bld'.events[2])
             /\ bld'.m_failed = (NullIn(bld'.events[1]) \/ NullIn(bld'.events[2]))
       /\ bld.stage = "built" =>
             /\ bld'.stage = "baked"
             /\ Node(tree', TessLeaf).m_painter_data # NULL]_vars

\* C11 witness: a baked leaf whose non-zero pass was handed the null ID and
\* then a valid triangle, and whose zero pass was not.
C11_Witness ==
    /\ bld.stage = "baked"
    /\ bld.failNZ /\ ~bld.failZ /\ bld.m_failed
    /\ Baked(TessLeaf)
    /\ index_data_chunk(PainterData(TessLeaf), nonzero_fill_rule) # <<>>

\* ---------------------------------------------------------------------
\* fill_indices

RECURSIVE SumOfCounts(_, _)
\* the sum of the counts of the buckets of H with a key in K
SumOfCounts(H, K) ==
    IF K = {} THEN 0
    ELSE LET k == CHOOSE k \in K : TRUE
         IN Len(H[k]) + SumOfCounts(H, K \ {k})

OddKeys(H) == {k \in DOMAIN H : k % 2 = 1}
EvenNonZeroKeys(H) == {k \in DOMAIN H : k % 2 = 0 /\ k # 0}

\* C16: after fill_indices on the buckets H the index vector is as long as
\* the sum of the counts; the sub-range of every odd bucket lies in
\* [0, even_non_zero_start), of every even non-zero bucket in
\* [even_non_zero_start, zero_start), of the bucket 0 in [zero_start,
\* total), and each of the three regions is as long as the sum of the
\* counts of its buckets; the winding map has a sub-range for each bucket
\* that is not empty, the sub-ranges are pairwise disjoint and hold the
\* indices of their bucket in insertion order, and they tile the vector.
C16_FillIndicesLayout ==
    bld.stage = "baked" =>
        LET H == bld.m_hoard
            F == bld.fill
            total == Len(F.indices)
            R == F.sub_range
        IN /\ total = SumOfCounts(H, DOMAIN H)
           /\ F.even_non_zero_start = SumOfCounts(H, OddKeys(H))
           /\ F.zero_start - F.even_non_zero_start
                 = SumOfCounts(H, EvenNonZeroKeys(H))
           /\ total - F.zero_start = SumOfCounts(H, DOMAIN H \cap {0})
           /\ DOMAIN R = {k \in DOMAIN H : Len(H[k]) > 0}
           /\ DOMAIN F.winding_map = DOMAIN R
           /\ \A w \in DOMAIN R :
                 /\ R[w].size = Len(H[w])
                 /\ IF w = 0
                    THEN F.zero_start <= R[w].offset
                           /\ R[w].offset + R[w].size <= total
                    ELSE IF w % 2 = 0
                    THEN F.even_non_zero_start <= R[w].offset
                           /\ R[w].offset + R[w].size <= F.zero_start
                    ELSE 0 <= R[w].offset
                           /\ R[w].offset + R[w].size <= F.even_non_zero_start
                 /\ SubSeq(F.indices, R[w].offset + 1, R[w].offset + R[w].size) = H[w]
                 /\ F.winding_map[w] = H[w]
           /\ \A u, w \in DOMAIN R :
                 u # w => \/ R[u].offset + R[u].size <= R[w].offset
                          \/ R[w].offset + R[w].size <= R[u].offset
           /\ SumOfCounts(H, DOMAIN R) = total

\* C16 witness: fill_indices has run on buckets none of which is empty,
\* with an odd key, an even non-zero key and the key 0.
C16_Witness ==
    /\ bld.stage = "baked"
    /\ \A k \in DOMAIN bld.m_hoard : Len(bld.m_hoard[k]) > 0
    /\ OddKeys(bld.m_hoard) # {}
    /\ EvenNonZeroKeys(bld.m_hoard) # {}
    /\ 0 \in DOMAIN bld.m_hoard


(***************************************************************************)
(* Splitting a SubPath with its contours.                                  *)
(***************************************************************************)
IsSplit == alive /\ ret.op = "split"
IsPostProcess == alive /\ ret.op = "post_process_sub_contour"

\* the axis and the value of the cut of the split Q has undergone, read
\* from the boxes of the children
CutAxis(Q, kids) == IF kids[1].m_bounds.m_max[1] # Q.m_bounds.m_max[1] THEN 0 ELSE 1
CutValue(Q, kids) == kids[1].m_bounds.m_max[CutAxis(Q, kids) + 1]

\* the corner a point lies on, as its two boundary tags, and the corner
\* after it in the cycle mm -> mM -> MM -> Mm -> mm
CornerOf(p) == p.m_boundary_type
NextCorner(c) ==
    IF c = <<on_min_boundary, on_min_boundary>> THEN <<on_min_boundary, on_max_boundary>>
    ELSE IF c = <<on_min_boundary, on_max_boundary>> THEN <<on_max_boundary, on_max_boundary>>
    ELSE IF c = <<on_max_boundary, on_max_boundary>> THEN <<on_max_boundary, on_min_boundary>>
    ELSE <<on_min_boundary, on_min_boundary>>
AllCorners(C) ==
    \A i \in 1..Len(C) : /\ C[i].m_boundary_type[1] \in {on_min_boundary, on_max_boundary}
                         /\ C[i].m_boundary_type[2] \in {on_min_boundary, on_max_boundary}
ForwardSteps(C) ==
    {i \in 1..Len(C) : CornerOf(C[i]) = NextCorner(CornerOf(PrevOf(C, i)))}
BackwardSteps(C) ==
    {i \in 1..Len(C) : CornerOf(PrevOf(C, i)) = NextCorner(CornerOf(C[i]))}
WrapCounter(C) == Cardinality(BackwardSteps(C)) - Cardinality(ForwardSteps(C))
RunsAlongBox(C) ==
    /\ C # <<>>
    /\ AllCorners(C)
    /\ ForwardSteps(C) \cup BackwardSteps(C) = 1..Len(C)
    /\ \E q \in -Len(C)..Len(C) : 4 * q = WrapCounter(C)
Wraps(C) ==
    IF RunsAlongBox(C) THEN CHOOSE q \in -Len(C)..Len(C) : 4 * q = WrapCounter(C)
    ELSE 0

\* what the loop of split_contour leaves in the child k - 1 for the
\* contours of Q
Emitted(Q, kids, k) ==
    [c \in 1..Len(Q.m_contours) |->
        LET r == split_contour_loop(Q.m_contours[c], CutAxis(Q, kids),
                                    CutValue(Q, kids), 1, Len(Q.m_contours[c]))
        IN IF k = 1 THEN r.C0 ELSE r.C1]

RECURSIVE SumOfWraps(_)
SumOfWraps(Cs) == IF Cs = <<>> THEN 0 ELSE Wraps(Head(Cs)) + SumOfWraps(Tail(Cs))

EdgesOf(Q) ==
    UNION {{<<PrevOf(Q.m_contours[c], i), Q.m_contours[c][i]>> :
               i \in 1..Len(Q.m_contours[c])} : c \in 1..Len(Q.m_contours)}
Coord(p, axis) == p.m_pt[axis + 1]
IsCutPoint(x, axis, value, tp) ==
    /\ Coord(x, axis) = value
    /\ x.m_boundary_type[axis + 1] = tp

\* what an edge that crosses from the side of child near to the side of
\* child far, or stays on one side, adds to the two children; near gets
\* the tag tpNear on its cut point
CrossingAdds(e, axis, value, near, far, tpNear, tpFar) ==
    /\ Len(near) = 1
    /\ IsCutPoint(near[1], axis, value, tpNear)
    /\ Len(far) = 2
    /\ IsCutPoint(far[1], axis, value, tpFar)
    /\ far[1].m_pt = near[1].m_pt
    /\ far[2] = e[2]

\* C22: in split_contour every directed edge (the closing edge included)
\* with its end points strictly on opposite sides of the cut adds exactly
\* one point with the cut coordinate equal to the splitting value to each
\* child contour, at the same position in both, tagged on-max in the
\* min-side child and on-min in the max-side child; every point of a child
\* contour lies on its side of the cut (<= in the min-side child, >= in
\* the max-side child); an edge with both end points strictly on one side
\* adds only its end vertex, to that side only.
C22_CrossingEdgesAddOneCutPoint ==
    IsSplit =>
       LET Q == ret.args.Q
           axis == CutAxis(Q, ret.out)
           value == CutValue(Q, ret.out)
       IN /\ \A e \in EdgesOf(Q) :
                LET s == split_contour_step(e[1], e[2], axis, value)
                    a == Coord(e[1], axis)
                    b == Coord(e[2], axis)
                IN /\ (a < value /\ value < b) =>
                         CrossingAdds(e, axis, value, s.C0, s.C1,
                                      on_max_boundary, on_min_boundary)
                   /\ (b < value /\ value < a) =>
                         CrossingAdds(e, axis, value, s.C1, s.C0,
                                      on_min_boundary, on_max_boundary)
                   /\ (a < value /\ b < value) => (s.C0 = <<e[2]>> /\ s.C1 = <<>>)
                   /\ (a > value /\ b > value) => (s.C0 = <<>> /\ s.C1 = <<e[2]>>)
          /\ \A k \in 1..2 :
                \A C \in Range(Emitted(Q, ret.out, k)) \cup Range(ret.out[k].m_contours) :
                   \A i \in 1..Len(C) :
                      IF k = 1 THEN Coord(C[i], axis) <= value
                      ELSE Coord(C[i], axis) >= value

\* a split of a contour with an edge crossing the cut in each direction
\* and an edge on each side, both children keeping a contour with a cut
\* point
C22_Witness ==
    /\ IsSplit
    /\ LET Q == ret.args.Q
           axis == CutAxis(Q, ret.out)
           value == CutValue(Q, ret.out)
       IN /\ \E e \in EdgesOf(Q) : Coord(e[1], axis) < value /\ value < Coord(e[2], axis)
          /\ \E e \in EdgesOf(Q) : Coord(e[2], axis) < value /\ value < Coord(e[1], axis)
          /\ \E e \in EdgesOf(Q) : Coord(e[1], axis) < value /\ Coord(e[2], axis) < value
          /\ \E e \in EdgesOf(Q) : Coord(e[1], axis) > value /\ Coord(e[2], axis) > value
          /\ \E C \in Range(ret.out[1].m_contours) :
                \E i \in 1..Len(C) : IsCutPoint(C[i], axis, value, on_max_boundary)
          /\ \E C \in Range(ret.out[2].m_contours) :
                \E i \in 1..Len(C) : IsCutPoint(C[i], axis, value, on_min_boundary)

\* C23: in split_contour a source vertex whose split coordinate equals the
\* splitting value is emitted into both child contours, and the copies
\* carry the tags of the cut: on-max in the min-side child, on-min in the
\* max-side child (read here as: each child contour holds a point at the
\* position of the vertex with that tag).
C23_OnCutVertexTagged ==
    IsSplit =>
       LET Q == ret.args.Q
           axis == CutAxis(Q, ret.out)
           value == CutValue(Q, ret.out)
       IN \A c \in 1..Len(Q.m_contours) :
             \A i \in 1..Len(Q.m_contours[c]) :
                Coord(Q.m_contours[c][i], axis) = value =>
                   /\ \E x \in Range(Emitted(Q, ret.out, 1)[c]) :
                         /\ x.m_pt = Q.m_contours[c][i].m_pt
                         /\ x.m_boundary_type[axis + 1] = on_max_boundary
                   /\ \E y \in Range(Emitted(Q, ret.out, 2)[c]) :
                         /\ y.m_pt = Q.m_contours[c][i].m_pt
                         /\ y.m_boundary_type[axis + 1] = on_min_boundary

\* width and height of the box of Q, and the middle of the box
WidthHeight(Q) == <<Q.m_bounds.m_max[1] - Q.m_bounds.m_min[1],
                    Q.m_bounds.m_max[2] - Q.m_bounds.m_min[2]>>
MidOf(Q, axis) == (Q.m_bounds.m_max[axis + 1] + Q.m_bounds.m_min[axis + 1]) \div 2

\* the vertices of each half of Q along axis, those on the middle line
\* counted in both halves
VerticesOfHalves(Q, axis) ==
    Cardinality({<<c, i>> \in UNION {{<<c, i>> : i \in 1..Len(Q.m_contours[c])} :
                                        c \in 1..Len(Q.m_contours)} :
                    Coord(Q.m_contours[c][i], axis) <= MidOf(Q, axis)})
    + Cardinality({<<c, i>> \in UNION {{<<c, i>> : i \in 1..Len(Q.m_contours[c])} :
                                          c \in 1..Len(Q.m_contours)} :
                      Coord(Q.m_contours[c][i], axis) >= MidOf(Q, axis)})

\* the edges <<c, i>> (from the point before point i of contour c to point
\* i) that satisfy Crosses(start coordinate, end coordinate, middle)
EdgeCount(Q, axis, Crosses(_, _, _)) ==
    Cardinality({<<c, i>> \in UNION {{<<c, i>> : i \in 1..Len(Q.m_contours[c])} :
                                        c \in 1..Len(Q.m_contours)} :
                    Crosses(Coord(PrevOf(Q.m_contours[c], i), axis),
                            Coord(Q.m_contours[c][i], axis), MidOf(Q, axis))})

\* an edge crosses the middle line: its end points lie strictly on
\* opposite sides
StrictlyCrosses(a, b, m) == (a < m /\ m < b) \/ (b < m /\ m < a)

\* an edge as the code counts it: it starts off the line and ends on the
\* other side of it, the line itself belonging to the max side
StartsOffAndChangesSide(a, b, m) == (a < m /\ b >= m) \/ (a > m /\ b < m)

CrossingTotal(Q, axis) ==
    VerticesOfHalves(Q, axis) + 2 * EdgeCount(Q, axis, StrictlyCrosses)
CountedTotal(Q, axis) ==
    VerticesOfHalves(Q, axis) + 2 * EdgeCount(Q, axis, StartsOffAndChangesSide)

\* C24 as stated: choose_splitting_coordinate returns the long axis
\* whenever the box is more than 4 times longer in one direction than in
\* the other; otherwise it returns the axis whose total (vertices of each
\* half, those on the line in both, plus every edge crossing the middle
\* line once per side) is smaller.
C24_LongAxisOrSmallerTotal ==
    IsSplit =>
       LET Q == ret.args.Q
           wh == WidthHeight(Q)
           axis == CutAxis(Q, ret.out)
       IN IF wh[1] > size_max_ratio * wh[2] THEN axis = 0
          ELSE IF wh[2] > size_max_ratio * wh[1] THEN axis = 1
          ELSE /\ CrossingTotal(Q, 0) < CrossingTotal(Q, 1) => axis = 0
               /\ CrossingTotal(Q, 1) < CrossingTotal(Q, 0) => axis = 1

\* C24, amended: choose_splitting_coordinate returns x whenever the box is
\* at least 4 times as wide as high, else y whenever it is at least 4 times
\* as high as wide, whatever the points; otherwise it returns x if the
\* total of x is smaller than the total of y, and y if not (a tie
\* included), where a total is the vertices of each half, those on the
\* line in both, plus 2 for every edge that starts off the middle line and
\* ends on the other side of it or, coming from the min side, on it.
C24_AtLeastFourOrCountedTotal ==
    IsSplit =>
       LET Q == ret.args.Q
           wh == WidthHeight(Q)
           axis == CutAxis(Q, ret.out)
       IN IF wh[1] >= size_max_ratio * wh[2] THEN axis = 0
          ELSE IF wh[2] >= size_max_ratio * wh[1] THEN axis = 1
          ELSE IF CountedTotal(Q, 0) < CountedTotal(Q, 1) THEN axis = 0
          ELSE axis = 1

\* a split of a box exactly 4 times as high as wide whose points favour x
C24_Witness ==
    /\ IsSplit
    /\ WidthHeight(ret.args.Q)[2] = size_max_ratio * WidthHeight(ret.args.Q)[1]
    /\ CountedTotal(ret.args.Q, 0) < CountedTotal(ret.args.Q, 1)
    /\ CutAxis(ret.args.Q, ret.out) = 1

(***************************************************************************)
(* PointHoard::fetch.                                                      *)
(***************************************************************************)
\* the quantized coordinates of the k-th call of the log L
QuantizedAt(b, L, k) == CoordinateConverter_iapply(b.m_bounds, L[k][1])

\* the calls of L that fetched a coordinate not fetched before
FirstFetches(b, L) ==
    {k \in 1..Len(L) : \A j \in 1..(k - 1) : QuantizedAt(b, L, j) # QuantizedAt(b, L, k)}

\* C25: for any sequence of fetch calls on a hoard made over an empty
\* table, two calls return the same ID iff their points have equal
\* quantized coordinates; the k-th distinct quantized coordinate gets ID
\* k - 1 and the table has as many entries as IDs were handed out; a fetch
\* of a known coordinate leaves table and map unchanged; the position
\* stored for an ID is that of the first point fetched for it.
C25_FetchDeduplicates ==
    [][(bld'.stage = "hoard" /\ ret'.op = "fetch") =>
          LET L == ret'.log
              b == bld'
          IN /\ \A i, j \in 1..Len(L) :
                   (L[i][2] = L[j][2]) <=> (QuantizedAt(b, L, i) = QuantizedAt(b, L, j))
             /\ \A k \in FirstFetches(b, L) :
                   /\ L[k][2] = Cardinality({j \in FirstFetches(b, L) : j < k})
                   /\ b.m_pts[L[k][2] + 1].m_pt = L[k][1]
             /\ Len(b.m_pts) = Cardinality(FirstFetches(b, L))
             /\ Len(L) \notin FirstFetches(b, L) =>
                   /\ b.m_pts = bld.m_pts
                   /\ b.m_map = bld.m_map
             /\ ret'.out = L[Len(L)][2]
      ]_vars

\* a fetch of a point whose quantized coordinates were fetched before with
\* another point, after a second coordinate has been stored
C25_Witness ==
    /\ bld.stage = "hoard"
    /\ ret.op = "fetch"
    /\ Len(bld.m_pts) = 2
    /\ \E j \in 1..(Len(ret.log) - 1) :
          /\ ret.log[j][2] = ret.out
          /\ ret.log[j][1] # ret.args.pt

(***************************************************************************)
(* The contours handed to the tessellator in the zero pass.                *)
(***************************************************************************)
\* the number of path vertices handed over in the zero pass
PathVertexCount(b) == Len(b.m_tess_vertices) - 4

\* the i-th path vertex, counting from 0, lies at the scaled position of
\* its point moved by i * 2^-20 in both coordinates
PerturbedBy(b, i) ==
    LET v == b.m_tess_vertices[i + 1]
        p == b.m_pts[v[3] + 1].m_pt
    IN /\ v[1] = Double((box_dim \div (b.m_bounds.m_max[1] - b.m_bounds.m_min[1]))
                           * (p[1] - b.m_bounds.m_min[1]), i)
       /\ v[2] = Double((box_dim \div (b.m_bounds.m_max[2] - b.m_bounds.m_min[2]))
                           * (p[2] - b.m_bounds.m_min[2]), i)

\* the four vertices of the boundary contour
BoundaryVertices(b) ==
    {<<b.m_tess_vertices[k][1], b.m_tess_vertices[k][2]>> :
        k \in (PathVertexCount(b) + 1)..Len(b.m_tess_vertices)}

C27_InjectiveOffReserved ==
    (ret.op = "chunk_from_winding_number" /\ alive) =>
        /\ \A k \in 1..Len(ret.log) :
              ret.log[k][1] # ret.args.winding_number => ret.log[k][2] # ret.out
        /\ ret.args.winding_number # 0 =>
              ret.out \notin 0..(fill_rule_data_count - 1)

(***************************************************************************)
(* The index chunks of a baked subset.                                     *)
(***************************************************************************)
\* C28: for every baked subset, leaf or merged, every index stored in any
\* of its index chunks is less than the number of attributes of its
\* attribute chunk 0, and the length of every index chunk is a multiple
\* of 3.
C28_IndicesNameAttributes ==
    \A id \in IDs :
        Baked(id) =>
            \A k \in 1..Len(PainterData(id).index_chunks) :
                /\ Len(PainterData(id).index_chunks[k]) % 3 = 0
                /\ \A i \in 1..Len(PainterData(id).index_chunks[k]) :
                      /\ PainterData(id).index_chunks[k][i] >= 0
                      /\ PainterData(id).index_chunks[k][i]
                            < Len(attribute_data_chunk(PainterData(id), 0))

\* the root is merged from a leaf baked by the callbacks of a polygon
\* that ends inside a group of three vertices and a leaf with a triangle,
\* whose indices are moved behind the attributes of the first
C28_Witness ==
    /\ bld.stage = "baked"
    /\ \E k \in 2..Len(bld.events[2]) :
          /\ bld.events[2][k][1] = "begin"
          /\ (k - 2) % 3 # 0
    /\ Baked(0) /\ ~IsLeaf(0)
    /\ \E k \in 1..Len(PainterData(TessLeaf).index_chunks) :
          PainterData(TessLeaf).index_chunks[k] # <<>>
    /\ \E k \in 1..Len(PainterData(0).index_chunks) :
          \E i \in 1..Len(PainterData(0).index_chunks[k]) :
              PainterData(0).index_chunks[k][i]
                 >= Len(attribute_data_chunk(PainterData(TessLeaf), 0))

(***************************************************************************)
(* The subsets select_subsets writes and the budgets of the call.          *)
(***************************************************************************)
\* the painter data of the node id once it is baked
BakedData(id) == Deref(Node(subset(tree, id).tree, id).m_painter_data)

\* the longest index chunk of the painter data pd
LargestChunk(pd) ==
    IF pd.index_chunks = <<>> THEN 0
    ELSE SetMax({Len(pd.index_chunks[k]) : k \in 1..Len(pd.index_chunks)})

\* C29: every ID written by select_subsets names a subset that fits the
\* budgets of the call once baked: its attribute chunk has at most
\* max_attribute_cnt attributes and every one of its index chunks has at
\* most max_index_cnt indices; the m_largest_index_block recorded for a
\* node with children is at least the size of every chunk of its merged
\* data.
C29_WrittenFitBudgets ==
    IsSelect =>
        /\ \A k \in 1..Len(ret.dst) :
              /\ Len(attribute_data_chunk(BakedData(ret.dst[k]), 0))
                    <= ret.args.budget[1]
              /\ LargestChunk(BakedData(ret.dst[k])) <= ret.args.budget[2]
        /\ \A id \in IDs :
              (~IsLeaf(id) /\ Node(tree, id).m_sizes_ready) =>
                  LargestChunk(BakedData(id)) <= Node(tree, id).m_largest_index_block

\* a call whose budgets the root does not fit wrote a leaf that fills the
\* index budget exactly, and the recorded block of the root is larger than
\* the index budget
C29_Witness ==
    /\ IsSelect
    /\ ~IsLeaf(0)
    /\ Node(tree, 0).m_sizes_ready
    /\ Node(tree, 0).m_largest_index_block > ret.args.budget[2]
    /\ LargestChunk(BakedData(0)) > 0
    /\ \E k \in 1..Len(ret.dst) :
          /\ IsLeaf(ret.dst[k])
          /\ LargestChunk(BakedData(ret.dst[k])) = ret.args.budget[2]

(***************************************************************************)
(* The number of index chunks of a leaf.                                   *)
(***************************************************************************)
\* the filler of the leaf the builder has baked
BakedFiller == AttributeDataFiller(bld.m_pts, bld.fill)

\* C30 (as stated): for every baked leaf with at least one triangle,
\* whatever winding numbers are present (only winding 0 included), the
\* number of index chunks computed by compute_sizes is greater than every
\* chunk ID that fill_data writes: the four standard fill-rule chunks and
\* the chunk of every present non-zero winding number.
C30_ChunkCountCoversWrites ==
    (bld.stage = "baked" /\ DOMAIN BakedFiller.m_per_fill # {}) =>
        \A c \in AttributeDataFiller_fill_data_chunks(BakedFiller) :
            c < AttributeDataFiller_compute_sizes(BakedFiller).number_index_chunks
====
